---- MODULE Spec2Model ----
(***************************************************************************)
(* Model of knowledge/scripts/auto_research.py: the quality scorer, the    *)
(* three crawlers, the orchestrator (run_research, the filter in main,     *)
(* generate_citations, save_to_daily_note) and the process exit code.      *)
(*                                                                         *)
(* A datetime is modelled by its year, the only part calculate reads.      *)
(* A Python dict is a TLA+ function whose DOMAIN is its key set; d.get(k,  *)
(* default) is Get(d, k, default).  A text file is [exists, content] with  *)
(* content the sequence of blocks written to it.                           *)
(***************************************************************************)
EXTENDS Integers, Sequences, FiniteSets, TLC

VARIABLES
    pc,             \* position of main: research/filter/format/save/return/done/crashed
    domain,         \* args.domain
    test_mode,      \* args.test_mode
    max_results,    \* args.max_results
    now,            \* year of datetime.now()
    src,            \* run_research: source whose query loop is running
    qi,             \* run_research: index of the next query of src
    results,        \* run_research: the accumulating result list
    ncalls,         \* number of crawler search calls made so far
    last_call,      \* the crawler called last and what its HTTP call produced
    filtered,       \* main: filtered_results
    filter_scores,  \* main: the score the filter computed for each kept item
    citations,      \* main: the payload returned by generate_citations
    note,           \* the dated note file
    exit_code,      \* value returned by main
    s_in,           \* arguments of one QualityScorer.calculate call
    s_out,          \* its return value, <<>> before it returns
    spc,            \* save_to_daily_note: position of each run (idle/check/header/append/done)
    payload,        \* save_to_daily_note: the citations argument of each run
    call_log,       \* payloads of the save_to_daily_note calls, in call order
    f_in,           \* arguments of one CitationFormatter.format call
    f_out,          \* what the call produced, <<>> before it ends
    requests,       \* the stored expense.approval.request records, by id
    documents,      \* the stored qms.sop.document records, by id
    steps,          \* the stored qms.sop.step records, by id
    runs,           \* the stored qms.sop.run records, by id
    step_runs,      \* the stored qms.sop.run.step records, by id
    orm_call,       \* the last ORM call on the addon models and its outcome
    w_in,           \* action_dispatch: the wizard, the system parameters, GitHub's answer
    w_out,          \* what action_dispatch did, <<>> before it ends
    h_pc,           \* health_check.py: the next step of run_all_checks and main
    comprehensive,  \* HealthChecker.comprehensive
    h_results,      \* HealthChecker.results: status and checks
    partners,       \* the test partner records in the target database
    h_exit,         \* health_check.py: the code passed to sys.exit
    snip_in,        \* extract_snippet: the content passed
    snip_out        \* what extract_snippet returned, <<>> before the call

vars == <<pc, domain, test_mode, max_results, now, src, qi, results, ncalls,
          last_call, filtered, filter_scores, citations, note, exit_code,
          s_in, s_out, spc, payload, call_log, f_in, f_out,
          requests, documents, steps, runs, step_runs, orm_call,
          w_in, w_out, h_pc, comprehensive, h_results, partners, h_exit,
          snip_in, snip_out>>

mainVars == <<pc, domain, test_mode, max_results, now, src, qi, results, ncalls,
              last_call, filtered, filter_scores, citations, exit_code>>
scoreVars == <<s_in, s_out>>
saveVars == <<spc, payload, call_log>>
formatVars == <<f_in, f_out>>
addonVars == <<requests, documents, steps, runs, step_runs, orm_call>>
wizardVars == <<w_in, w_out>>
healthVars == <<h_pc, comprehensive, h_results, partners, h_exit>>
snippetVars == <<snip_in, snip_out>>

----------------------------------------------------------------------------
(* Bounds *)

MinYear == 2019
MaxYear == 2027
MaxUpvotes == 21
MaxDownvotes == 2
FirstNow == 2025
LastNow == 2026
MaxTotal == 5
NumRuns == 2
MaxCalls == 3

----------------------------------------------------------------------------
(* Python helpers *)

Get(d, k, default) == IF k \in DOMAIN d THEN d[k] ELSE default

Min(a, b) == IF a <= b THEN a ELSE b
Max(a, b) == IF a >= b THEN a ELSE b

\* items[:n], Python slice semantics (a negative n counts from the end)
SliceTo(items, n) ==
    LET stop == IF n >= 0 THEN Min(n, Len(items)) ELSE Max(Len(items) + n, 0)
    IN  SubSeq(items, 1, stop)

----------------------------------------------------------------------------
(* QualityScorer *)

QUALITY_SCORES ==
    [official_odoo_docs |-> 100,
     oca_maintainer_response |-> 95,
     oca_repository_code |-> 90,
     stackoverflow_accepted_20plus |-> 85,
     reddit_10plus_upvotes_solved |-> 75,
     stackoverflow_accepted_10_19 |-> 70,
     forum_official_response |-> 70,
     reddit_5_9_upvotes |-> 60,
     stackoverflow_no_accept_10plus |-> 50]

RECENCY_BONUS == (2025 :> 20) @@ (2024 :> 15) @@ (2023 :> 10) @@ (2022 :> 0)

ALIGNMENT_BONUS ==
    [oca_compliant |-> 15,
     self_hosted_focus |-> 10,
     version_16_17_19 |-> 10,
     proprietary_only |-> -30]

MIN_ACCEPTABLE_SCORE == 60

\* the base score with the lower reddit tier starting one upvote early
BaseScoreLooseTier(source_type, upvotes, accepted) ==
    IF source_type = "oca" THEN QUALITY_SCORES.oca_repository_code
    ELSE IF source_type = "reddit" THEN
        IF upvotes >= 10 THEN QUALITY_SCORES.reddit_10plus_upvotes_solved
        ELSE IF upvotes >= 4 THEN QUALITY_SCORES.reddit_5_9_upvotes
        ELSE 0
    ELSE IF source_type = "stackoverflow" THEN
        IF accepted /\ upvotes >= 20 THEN QUALITY_SCORES.stackoverflow_accepted_20plus
        ELSE IF accepted /\ upvotes >= 10 THEN QUALITY_SCORES.stackoverflow_accepted_10_19
        ELSE IF upvotes >= 10 THEN QUALITY_SCORES.stackoverflow_no_accept_10plus
        ELSE 0
    ELSE IF source_type = "forum" THEN QUALITY_SCORES.forum_official_response
    ELSE IF source_type = "official" THEN QUALITY_SCORES.official_odoo_docs
    ELSE 0

\* the "# Base score" block of calculate
BaseScore(source_type, upvotes, accepted) ==
    IF source_type = "oca" THEN QUALITY_SCORES.oca_repository_code
    ELSE IF source_type = "reddit" THEN
        IF upvotes >= 10 THEN QUALITY_SCORES.reddit_10plus_upvotes_solved
        ELSE IF upvotes >= 5 THEN QUALITY_SCORES.reddit_5_9_upvotes
        ELSE 0
    ELSE IF source_type = "stackoverflow" THEN
        IF accepted /\ upvotes >= 20 THEN QUALITY_SCORES.stackoverflow_accepted_20plus
        ELSE IF accepted /\ upvotes >= 10 THEN QUALITY_SCORES.stackoverflow_accepted_10_19
        ELSE IF upvotes >= 10 THEN QUALITY_SCORES.stackoverflow_no_accept_10plus
        ELSE 0
    ELSE IF source_type = "forum" THEN QUALITY_SCORES.forum_official_response
    ELSE IF source_type = "official" THEN QUALITY_SCORES.official_odoo_docs
    ELSE 0

\* the "# Recency bonus" block of calculate, without the year guard
RecencyNoGuard(year) == Get(RECENCY_BONUS, year, -20)

\* the "# Recency bonus" block of calculate
RecencyTerm(year) ==
    IF year >= 2021 THEN Get(RECENCY_BONUS, year, -20) ELSE 0

\* calculate with the sum clamped to 100
calculateClamped(source_type, year, upvotes, accepted, oca_aligned) ==
    Min(100, BaseScore(source_type, upvotes, accepted) + RecencyTerm(year)
             + (IF oca_aligned THEN ALIGNMENT_BONUS.oca_compliant ELSE 0))

\* calculate charging the proprietary_only penalty to every source that is
\* not OCA-aligned
calculateProprietaryPenalty(source_type, year, upvotes, accepted, oca_aligned) ==
    BaseScore(source_type, upvotes, accepted) + RecencyTerm(year)
    + (IF oca_aligned THEN ALIGNMENT_BONUS.oca_compliant
       ELSE ALIGNMENT_BONUS.proprietary_only)

calculate(source_type, year, upvotes, accepted, oca_aligned) ==
    LET score0 == BaseScore(source_type, upvotes, accepted)
        score1 == score0 + RecencyTerm(year)
        score2 == IF oca_aligned
                  THEN score1 + ALIGNMENT_BONUS.oca_compliant
                  ELSE score1
    IN  score2

\* is_acceptable with a strict comparison
is_acceptableStrict(score) == score > MIN_ACCEPTABLE_SCORE

is_acceptable(score) == score >= MIN_ACCEPTABLE_SCORE

----------------------------------------------------------------------------
(* Specification SpecScore: one call of QualityScorer.calculate *)

SourceTypes == {"oca", "reddit", "stackoverflow", "forum", "official", "blog"}

ScoreInputs ==
    [source_type : SourceTypes, year : MinYear..MaxYear,
     upvotes : (0 - MaxDownvotes)..MaxUpvotes, accepted : BOOLEAN, oca_aligned : BOOLEAN]

NoInput == [source_type |-> "none"]
NoScore == <<>>

Absent == [exists |-> FALSE, content |-> <<>>]

IdleMain ==
    /\ pc = "off" /\ domain = "module_dev" /\ test_mode = FALSE
    /\ max_results = 5 /\ now = FirstNow /\ src = "end" /\ qi = 1
    /\ results = <<>> /\ ncalls = 0 /\ last_call = [kind |-> "none", source |-> "none", fetched |-> <<>>]
    /\ filtered = <<>> /\ filter_scores = <<>> /\ citations = <<>>
    /\ exit_code = -1

IdleScore == s_in = NoInput /\ s_out = NoScore

IdleSave ==
    /\ spc = [p \in 1..NumRuns |-> "idle"]
    /\ payload = [p \in 1..NumRuns |-> <<>>]
    /\ call_log = <<>>

IdleFormat == f_in = NoInput /\ f_out = <<>>

IdleWizard == w_in = NoInput /\ w_out = <<>>

IdleSnippet == snip_in = NoInput /\ snip_out = <<>>

IdleHealth ==
    /\ h_pc = "off" /\ comprehensive = FALSE
    /\ h_results = [status |-> "healthy", checks |-> <<>>]
    /\ partners = {} /\ h_exit = -1

NoCall == [model |-> "none", op |-> "none", args |-> <<>>, error |-> "none"]

IdleAddons ==
    /\ requests = <<>> /\ documents = <<>> /\ steps = <<>>
    /\ runs = <<>> /\ step_runs = <<>>
    /\ orm_call = NoCall

InitScore ==
    /\ IdleMain /\ IdleSave /\ IdleFormat /\ IdleWizard /\ IdleHealth /\ IdleAddons /\ note = Absent /\ IdleSnippet
    /\ s_in \in ScoreInputs
    /\ s_out = NoScore

Calculate ==
    /\ s_in # NoInput /\ s_out = NoScore
    /\ s_out' = <<calculate(s_in.source_type, s_in.year, s_in.upvotes,
                            s_in.accepted, s_in.oca_aligned)>>
    /\ UNCHANGED <<s_in, note>>
    /\ UNCHANGED mainVars /\ UNCHANGED saveVars
    /\ UNCHANGED formatVars /\ UNCHANGED addonVars /\ UNCHANGED wizardVars /\ UNCHANGED snippetVars /\ UNCHANGED healthVars

NextScore == Calculate

SpecScore == InitScore /\ [][NextScore]_vars

----------------------------------------------------------------------------
(* Upstream API responses: what requests.get can produce for one call *)

LIMIT == 3

\* the min_upvotes run_research passes to the Reddit and Stack Overflow crawlers
REDDIT_MIN_UPVOTES == 5
STACKOVERFLOW_MIN_UPVOTES == 10

\* Each upstream answers in an order of its own (GitHub: best match, Reddit:
\* sort=relevance, Stack Overflow: sort=votes, order=desc).  The raw items a
\* call can return are listed here in that order; a response holds some of
\* them, in that order.

\* raw items of GitHub code search (all expected fields present)
GitHubMatches ==
    <<[name |-> "models.py", html_url |-> "https://github.com/OCA/a/blob/models.py",
       path |-> "a/models.py", full_name |-> "OCA/a"],
      [name |-> "views.py", html_url |-> "https://github.com/OCA/a/blob/views.py",
       path |-> "a/views.py", full_name |-> "OCA/a"]>>

\* raw posts of Reddit search: ups, year of created_utc
RedditPost(permalink, ups, year) ==
    [title |-> "computed field cache", permalink |-> permalink, ups |-> ups,
     year |-> year, selftext |-> "text"]

RedditRelevance ==
    <<RedditPost("/r/odoo/a", 5, 2021), RedditPost("/r/odoo/b", 4, 2025),
      RedditPost("/r/odoo/c", 7, 2022)>>

\* raw questions of Stack Overflow search: score, is_answered, year of creation_date
StackOverflowQuestion(link, score, is_answered, year) ==
    [title |-> "record rule performance", link |-> link, score |-> score,
     is_answered |-> is_answered, year |-> year, body |-> "body"]

StackOverflowByVotes ==
    <<StackOverflowQuestion("https://stackoverflow.com/q/1", 15, TRUE, 2021),
      StackOverflowQuestion("https://stackoverflow.com/q/2", 10, FALSE, 2023),
      StackOverflowQuestion("https://stackoverflow.com/q/3", 9, TRUE, 2025)>>

\* a line of a file: its leading whitespace and the rest of it; a line whose
\* text is "" is blank (str.strip() of it is empty)
Line(indent, text) == [indent |-> indent, text |-> text]

\* results of the raw file fetch (requests.get and raise_for_status): a
\* network failure (ok = FALSE), or the text of the response as lines
FileFetches ==
    {[ok |-> FALSE, text |-> <<>>],
     [ok |-> TRUE, text |-> <<Line("", "from odoo import models"),
                              Line("", "class A(models.Model):"),
                              Line("    ", "_name = 'a'")>>]}

\* the ways of picking at most n items of an ordering, kept in its order
Picks(Ordering, n) ==
    LET ranks == 1..Len(Ordering)
        Increasing(f) == \A i, j \in DOMAIN f : i < j => f[i] < f[j]
        Choices == UNION {{f \in [1..k -> ranks] : Increasing(f)} : k \in 0..n}
    IN  {[i \in DOMAIN f |-> Ordering[f[i]]] : f \in Choices}

\* A response body is "items" (HTTP 200, well-formed items), "neterr" (the
\* call raised requests.RequestException: timeout, connection error, HTTP
\* error status) or "badshape" (HTTP 200 whose first item lacks a field
\* the crawler subscripts).
Responses(Ordering) ==
    {[kind |-> "items", items |-> s] : s \in Picks(Ordering, LIMIT)}
    \cup {[kind |-> "neterr", items |-> <<>>], [kind |-> "badshape", items |-> <<>>]}

----------------------------------------------------------------------------
(* Crawlers.  A search returns [raised, items]: raised is TRUE when an      *)
(* exception leaves the method.                                             *)

\* [f(x) for x in s if keep(x)]
FilterMap(s, keep(_), f(_)) ==
    LET kept == SelectSeq(s, keep)
    IN  [i \in 1..Len(kept) |-> f(kept[i])]

\* the except clause re-raises
OnRequestExceptionRaise == [raised |-> TRUE, items |-> <<>>]

\* except requests.RequestException: log, return []
OnRequestException == [raised |-> FALSE, items |-> <<>>]

\* item['name'] and the like on an item without the key: KeyError is not a
\* RequestException, so no except clause of the crawler catches it
OnKeyError == [raised |-> TRUE, items |-> <<>>]

\* the item built without its 'date' key
OCAItemNoDate(item, nowYear) ==
    [title |-> <<"OCA Pattern: ", item.name>>,
     url |-> <<item.html_url>>,
     path |-> item.path,
     repo |-> item.full_name,
     source_type |-> "oca"]

OCAItem(item, nowYear) ==
    [title |-> <<"OCA Pattern: ", item.name>>,
     url |-> <<item.html_url>>,
     path |-> item.path,
     repo |-> item.full_name,
     source_type |-> "oca",
     date |-> nowYear]

search_code(response, nowYear) ==
    IF response.kind = "neterr" THEN OnRequestException
    ELSE IF response.kind = "badshape" THEN OnKeyError
    ELSE [raised |-> FALSE,
          items |-> [i \in 1..Len(response.items) |-> OCAItem(response.items[i], nowYear)]]

RedditItem(post) ==
    [title |-> <<post.title>>,
     url |-> <<"https://www.reddit.com", post.permalink>>,
     upvotes |-> post.ups,
     created |-> post.year,
     source_type |-> "reddit",
     selftext |-> post.selftext]

reddit_search(response, min_upvotes) ==
    IF response.kind = "neterr" THEN OnRequestException
    ELSE IF response.kind = "badshape" THEN OnKeyError
    ELSE LET keep(post) == ~(post.ups < min_upvotes)
         IN  [raised |-> FALSE, items |-> FilterMap(response.items, keep, RedditItem)]

StackOverflowItem(item) ==
    [title |-> <<item.title>>,
     url |-> <<item.link>>,
     upvotes |-> item.score,
     created |-> item.year,
     accepted |-> item.is_answered,
     source_type |-> "stackoverflow",
     body_preview |-> item.body]

stackoverflow_search(response, min_upvotes) ==
    IF response.kind = "neterr" THEN OnRequestException
    ELSE IF response.kind = "badshape" THEN OnKeyError
    ELSE LET keep(item) == ~(item.score < min_upvotes)
         IN  [raised |-> FALSE, items |-> FilterMap(response.items, keep, StackOverflowItem)]

\* None
None == [ok |-> FALSE, text |-> <<>>]

\* a fetch without raise_for_status and without the except clause's None:
\* the body of the error response is returned as the content
get_file_contentErrorBody(fetch) ==
    IF fetch.ok THEN [ok |-> TRUE, text |-> fetch.text]
    ELSE [ok |-> TRUE, text |-> <<Line("", "404: Not Found")>>]

\* get_file_content: response.text, or None when requests.get or
\* raise_for_status raised requests.RequestException
get_file_content(fetch) ==
    IF fetch.ok THEN [ok |-> TRUE, text |-> fetch.text] ELSE None

\* patterns of extract_snippet, in the order of the list
patterns ==
    <<"@api\\.depends", "def _compute", "@api\\.constrains", "def create\\(",
      "def write\\(", "class.*\\(models\\.">>

\* re.search(pattern, line) for the lines the files here are made of
re_search(pattern, line) ==
    <<pattern, line.text>> \in
        {<<"@api\\.depends", "@api.depends('x')">>,
         <<"def _compute", "def _compute_y(self):  # def create(">>,
         <<"def create\\(", "def _compute_y(self):  # def create(">>,
         <<"class.*\\(models\\.", "class A(models.Model):">>}

\* the loops nested the other way round: for pattern in patterns, for line
\* in lines
FirstMatchByPattern(lines, i) ==
    LET hits(p) == {j \in i..Len(lines) : re_search(patterns[p], lines[j])}
        matching == {p \in 1..Len(patterns) : hits(p) # {}}
        first == CHOOSE p \in matching : \A q \in matching : p <= q
    IN  IF matching = {} THEN 0
        ELSE CHOOSE j \in hits(first) : \A k \in hits(first) : j <= k

RECURSIVE FirstMatch(_, _)
\* for i, line in enumerate(lines): for pattern in patterns: if re.search(...);
\* 0 when the loops end without a match
FirstMatch(lines, i) ==
    IF i > Len(lines) THEN 0
    ELSE IF \E p \in 1..Len(patterns) : re_search(patterns[p], lines[i]) THEN i
    ELSE FirstMatch(lines, i + 1)

RECURSIVE lstrip_lines(_)
\* str.lstrip() of lines joined with newlines
lstrip_lines(lines) ==
    IF lines = <<>> THEN <<>>
    ELSE IF lines[1].text = "" THEN lstrip_lines(Tail(lines))
    ELSE <<Line("", lines[1].text)>> \o Tail(lines)

RECURSIVE rstrip_lines(_)
\* str.rstrip() of lines joined with newlines (no line here ends in whitespace)
rstrip_lines(lines) ==
    IF lines = <<>> THEN <<>>
    ELSE IF lines[Len(lines)].text = "" THEN rstrip_lines(SubSeq(lines, 1, Len(lines) - 1))
    ELSE lines

\* '\n'.join(lines).strip()
join_strip(lines) == rstrip_lines(lstrip_lines(lines))

\* [l.strip() for l in lines if l.strip()]
non_empty_lines(lines) ==
    LET kept == SelectSeq(lines, LAMBDA l : l.text # "")
    IN  [k \in 1..Len(kept) |-> Line("", kept[k].text)]

\* extract_snippet with max_lines = 2; the snippet is its sequence of lines,
\* <<>> is ''
extract_snippet(content) ==
    IF ~content.ok \/ content.text = <<>> THEN <<>>
    ELSE LET lines == content.text
             i == FirstMatch(lines, 1)
             non_empty == non_empty_lines(lines)
         IN  IF i > 0 THEN join_strip(SubSeq(lines, i, Min(i + 1, Len(lines))))
             ELSE SubSeq(non_empty, 1, Min(2, Len(non_empty)))

----------------------------------------------------------------------------
(* CitationFormatter and the derivations of generate_citations *)

\* "keyword in title_lower" for the titles the crawlers can produce
TitleKeywords(title) ==
    IF title = <<"OCA Pattern: ", "models.py">> THEN {"model"}
    ELSE IF title = <<"OCA Pattern: ", "views.py">> THEN {}
    ELSE IF title = <<"computed field cache">> THEN {"computed"}
    ELSE IF title = <<"record rule performance">> THEN {"record rule", "performance"}
    ELSE {}

\* item.get('created', item.get('date', datetime.now()))
ItemDate(item, nowYear) == Get(item, "created", Get(item, "date", nowYear))

\* the QualityScorer.calculate call of the filter in main and of format
ItemScore(item, nowYear) ==
    calculate(item.source_type,
              ItemDate(item, nowYear),
              Get(item, "upvotes", 0),
              Get(item, "accepted", FALSE),
              item.source_type = "oca")

\* str.title() of the source types
TitleCase(source_type) ==
    IF source_type = "oca" THEN "Oca"
    ELSE IF source_type = "reddit" THEN "Reddit"
    ELSE IF source_type = "stackoverflow" THEN "Stackoverflow"
    ELSE source_type

\* the value as passed, with no fallback
OrElseKeep(x, default) == x

\* x or default; a text is the sequence of its parts, '' the empty one
OrElse(x, default) == IF x = <<>> THEN default ELSE x

format(item, snippet, takeaway, application, tags, nowYear) ==
    [block |-> "citation",
     title |-> item.title,
     link |-> item.url,
     date_str |-> ItemDate(item, nowYear),
     source_type |-> TitleCase(item.source_type),
     score |-> ItemScore(item, nowYear),
     takeaway |-> OrElse(takeaway, <<"Manual review required">>),
     snippet |-> OrElse(snippet, <<"See link for details">>),
     application |-> OrElse(application, <<"odoo-module-dev">>),
     tags |-> tags]

_generate_takeaway(item) ==
    IF item.source_type = "oca"
    THEN <<"OCA pattern from ", Get(item, "repo", "repository"),
           " - review code for implementation details">>
    ELSE IF item.source_type = "reddit" THEN
        LET preview == Get(item, "selftext", "")
        IN  IF preview # "" THEN <<preview, "...">>
            ELSE <<"Community solution - see discussion for details">>
    ELSE IF item.source_type = "stackoverflow" THEN
        LET preview == Get(item, "body_preview", "")
        IN  IF preview # "" THEN <<preview, "...">>
            ELSE <<Get(item, "upvotes", 0), " upvotes - see answer for solution">>
    ELSE <<"Manual review required">>

keyword_map ==
    <<<<"computed", "computed-field">>, <<"api.depends", "api-depends">>,
      <<"record rule", "record-rules">>, <<"security", "security">>,
      <<"performance", "performance">>, <<"docker", "docker">>,
      <<"wkhtmltopdf", "wkhtmltopdf">>, <<"test", "testing">>,
      <<"migration", "migration">>, <<"orm", "orm">>>>

_generate_tags(item) ==
    LET hits == SelectSeq(keyword_map, LAMBDA kt : kt[1] \in TitleKeywords(item.title))
    IN  [i \in 1..Len(hits) |-> hits[i][2]] \o <<item.source_type>>

_determine_application(item) ==
    LET kws == TitleKeywords(item.title)
        dev == IF kws \cap {"orm", "model", "computed", "api", "security"} # {}
               THEN <<"odoo-module-dev">> ELSE <<>>
        docker == IF kws \cap {"docker", "container", "wkhtmltopdf"} # {}
                  THEN <<"odoo-docker-claude">> ELSE <<>>
        applications == dev \o docker
    IN  IF applications = <<>> THEN <<"odoo-module-dev">> ELSE applications

\* the citations joined in reverse order
generate_citationsReversed(items, nowYear) ==
    [i \in 1..Len(items) |->
        LET item == items[Len(items) + 1 - i]
        IN  format(item, Get(item, "snippet", <<>>), _generate_takeaway(item),
                   _determine_application(item), _generate_tags(item), nowYear)]

generate_citations(items, nowYear) ==
    [i \in 1..Len(items) |->
        format(items[i], Get(items[i], "snippet", <<>>), _generate_takeaway(items[i]),
               _determine_application(items[i]), _generate_tags(items[i]), nowYear)]

----------------------------------------------------------------------------
(* The dated note file *)

Header(today) == [block |-> "header", today |-> today]

\* the existence check always answering "absent"
ExistsNever(file) == FALSE

\* Path.exists
Exists(file) == file.exists

\* Path.write_text: open with mode 'w', which truncates
write_text(file, text) == [exists |-> TRUE, content |-> <<text>>]

\* open(path, 'w') in place of open(path, 'a')
append_writeTruncating(file, blocks) == [exists |-> TRUE, content |-> blocks]

\* open(path, 'a') and f.write: creates the file when absent
append_write(file, blocks) == [exists |-> TRUE, content |-> file.content \o blocks]

----------------------------------------------------------------------------
(* ResearchAutomation: the query sets and the loops of run_research *)

NoQueries == [k \in {} |-> <<>>]

_load_queries ==
    [module_dev |->
        [oca |-> <<"@api.depends computed field",
                   "record rule domain multi-company",
                   "pytest-odoo TransactionCase">>,
         reddit |-> <<"OCA module best practices", "computed field cache">>,
         stackoverflow |-> <<"@api.depends computed field", "record rule performance">>],
     docker |->
        [reddit |-> <<"docker wkhtmltopdf fonts", "docker compose odoo postgres">>,
         stackoverflow |-> <<"docker odoo wkhtmltopdf", "docker odoo non-root">>]]

\* self.queries.get(domain, {}) with the module_dev set as the default
DomainQueriesDefaulting(d) == Get(_load_queries, d, _load_queries.module_dev)

\* queries = self.queries.get(domain, {})
DomainQueries(d) == Get(_load_queries, d, NoQueries)

\* the Stack Overflow loop run in test mode too
LoopQueriesAllSources(d, test, source) == Get(DomainQueries(d), source, <<>>)

\* the list one loop of run_research iterates: queries.get(source, []), and
\* nothing for Stack Overflow in test mode
LoopQueries(d, test, source) ==
    IF source = "stackoverflow" /\ test THEN <<>>
    ELSE Get(DomainQueries(d), source, <<>>)

NextSource(source) ==
    IF source = "oca" THEN "reddit"
    ELSE IF source = "reddit" THEN "stackoverflow"
    ELSE "end"

RECURSIVE LoopPosition(_, _, _, _)
\* the position the loops reach from (source, i): the next query to run,
\* or "end" when every loop is exhausted
LoopPosition(d, test, source, i) ==
    IF source = "end" THEN <<"end", 1>>
    ELSE IF i <= Len(LoopQueries(d, test, source)) THEN <<source, i>>
    ELSE LoopPosition(d, test, NextSource(source), 1)

Domains == {"module_dev", "docker", "studio", "odoo_sh"}
MaxResultsChoices == {1, 5}

\* main after parse_args and the construction of ResearchAutomation, at the
\* entry of run_research, for --max-results drawn from choices
InitArgs(choices) ==
    /\ IdleScore /\ IdleSave /\ IdleFormat /\ IdleWizard /\ IdleHealth /\ IdleAddons /\ IdleSnippet
    /\ pc = "research"
    /\ domain \in Domains
    /\ test_mode \in BOOLEAN
    /\ max_results \in choices
    /\ now = FirstNow
    /\ src = LoopPosition(domain, test_mode, "oca", 1)[1]
    /\ qi = LoopPosition(domain, test_mode, "oca", 1)[2]
    /\ results = <<>>
    /\ ncalls = 0
    /\ last_call = [kind |-> "none", source |-> "none", fetched |-> <<>>]
    /\ filtered = <<>> /\ filter_scores = <<>> /\ citations = <<>>
    /\ note \in {Absent, write_text(Absent, Header(FirstNow))}
    /\ exit_code = -1

Init == InitArgs(MaxResultsChoices)

\* one iteration of a query loop: r is what the crawler's search produced,
\* items what the loop body appends, fetched whether each raw file fetch of
\* the iteration succeeded
LoopStep(response, r, items, fetched) ==
    /\ Len(results) + Len(items) <= MaxTotal
    /\ ncalls' = ncalls + 1
    /\ last_call' = [kind |-> response.kind, source |-> src, fetched |-> fetched]
    /\ IF r.raised
       THEN /\ pc' = "crashed"
            /\ UNCHANGED <<src, qi, results>>
       ELSE /\ pc' = pc
            /\ results' = results \o items
            /\ src' = LoopPosition(domain, test_mode, src, qi + 1)[1]
            /\ qi' = LoopPosition(domain, test_mode, src, qi + 1)[2]
    /\ UNCHANGED <<domain, test_mode, max_results, now, filtered, filter_scores,
                   citations, note, exit_code>>
    /\ UNCHANGED scoreVars /\ UNCHANGED formatVars /\ UNCHANGED addonVars /\ UNCHANGED wizardVars /\ UNCHANGED snippetVars /\ UNCHANGED healthVars /\ UNCHANGED saveVars

\* for query in queries.get('oca', []): search_code, then per item the raw
\* file fetch and the snippet
SearchOCA ==
    /\ pc = "research" /\ src = "oca"
    /\ \E response \in Responses(GitHubMatches) :
        LET r == search_code(response, now)
            kept == SliceTo(r.items, max_results)
        IN  \E fetches \in [1..Len(kept) -> FileFetches] :
                LoopStep(response, r,
                    [i \in 1..Len(kept) |->
                        kept[i] @@ [snippet |-> extract_snippet(get_file_content(fetches[i]))]],
                    [i \in 1..Len(kept) |-> fetches[i].ok])

\* for query in queries.get('reddit', []): search, extend
SearchReddit ==
    /\ pc = "research" /\ src = "reddit"
    /\ \E response \in Responses(RedditRelevance) :
        LET r == reddit_search(response, REDDIT_MIN_UPVOTES)
        IN  LoopStep(response, r, SliceTo(r.items, max_results), <<>>)

\* if not self.test_mode: for query in queries.get('stackoverflow', [])
SearchStackOverflow ==
    /\ pc = "research" /\ src = "stackoverflow"
    /\ \E response \in Responses(StackOverflowByVotes) :
        LET r == stackoverflow_search(response, STACKOVERFLOW_MIN_UPVOTES)
        IN  LoopStep(response, r, SliceTo(r.items, max_results), <<>>)

\* run_research returns results to main
ResearchReturn ==
    /\ pc = "research" /\ src = "end"
    /\ pc' = "filter"
    /\ UNCHANGED <<domain, test_mode, max_results, now, src, qi, results, ncalls,
                   last_call, filtered, filter_scores, citations, note, exit_code>>
    /\ UNCHANGED scoreVars /\ UNCHANGED formatVars /\ UNCHANGED addonVars /\ UNCHANGED wizardVars /\ UNCHANGED snippetVars /\ UNCHANGED healthVars /\ UNCHANGED saveVars

\* main: filtered_results = [r for r in results if is_acceptable(calculate(...))]
Filter ==
    /\ pc = "filter"
    /\ LET keep(r) == is_acceptable(ItemScore(r, now))
       IN  /\ filtered' = SelectSeq(results, keep)
           /\ filter_scores' = FilterMap(results, keep, LAMBDA r : ItemScore(r, now))
    /\ pc' = "format"
    /\ UNCHANGED <<domain, test_mode, max_results, now, src, qi, results, ncalls,
                   last_call, citations, note, exit_code>>
    /\ UNCHANGED scoreVars /\ UNCHANGED formatVars /\ UNCHANGED addonVars /\ UNCHANGED wizardVars /\ UNCHANGED snippetVars /\ UNCHANGED healthVars /\ UNCHANGED saveVars

\* main: citations = automation.generate_citations(filtered_results)
Format ==
    /\ pc = "format"
    /\ citations' = generate_citations(filtered, now)
    /\ pc' = "save"
    /\ UNCHANGED <<domain, test_mode, max_results, now, src, qi, results, ncalls,
                   last_call, filtered, filter_scores, note, exit_code>>
    /\ UNCHANGED scoreVars /\ UNCHANGED formatVars /\ UNCHANGED addonVars /\ UNCHANGED wizardVars /\ UNCHANGED snippetVars /\ UNCHANGED healthVars /\ UNCHANGED saveVars

\* a save that returns early when there is nothing to append
save_to_daily_noteSkipEmpty(file, blocks, today) ==
    IF blocks = <<>> THEN file
    ELSE LET created == IF ~Exists(file) THEN write_text(file, Header(today)) ELSE file
         IN  append_write(created, blocks)

\* save_to_daily_note run by one process without interruption
save_to_daily_note(file, blocks, today) ==
    LET created == IF ~Exists(file) THEN write_text(file, Header(today)) ELSE file
    IN  append_write(created, blocks)

\* main: note_path = automation.save_to_daily_note(citations, args.output)
Save ==
    /\ pc = "save"
    /\ note' = save_to_daily_note(note, citations, now)
    /\ pc' = "return"
    /\ UNCHANGED <<domain, test_mode, max_results, now, src, qi, results, ncalls,
                   last_call, filtered, filter_scores, citations, exit_code>>
    /\ UNCHANGED scoreVars /\ UNCHANGED formatVars /\ UNCHANGED addonVars /\ UNCHANGED wizardVars /\ UNCHANGED snippetVars /\ UNCHANGED healthVars /\ UNCHANGED saveVars

\* the exit code taken from the raw result count
ExitCodeOfResults(nfiltered, nresults) == IF nresults >= 5 THEN 0 ELSE 1

\* return 0 if len(filtered_results) >= 5 else 1
ExitCode(nfiltered, nresults) == IF nfiltered >= 5 THEN 0 ELSE 1

Return ==
    /\ pc = "return"
    /\ exit_code' = ExitCode(Len(filtered), Len(results))
    /\ pc' = "done"
    /\ UNCHANGED <<domain, test_mode, max_results, now, src, qi, results, ncalls,
                   last_call, filtered, filter_scores, citations, note>>
    /\ UNCHANGED scoreVars /\ UNCHANGED formatVars /\ UNCHANGED addonVars /\ UNCHANGED wizardVars /\ UNCHANGED snippetVars /\ UNCHANGED healthVars /\ UNCHANGED saveVars

\* the clock passes into the next year while main works on the results
Tick ==
    /\ pc \in {"filter", "format", "save"}
    /\ now < LastNow
    /\ now' = now + 1
    /\ UNCHANGED <<pc, domain, test_mode, max_results, src, qi, results, ncalls,
                   last_call, filtered, filter_scores, citations, note, exit_code>>
    /\ UNCHANGED scoreVars /\ UNCHANGED formatVars /\ UNCHANGED addonVars /\ UNCHANGED wizardVars /\ UNCHANGED snippetVars /\ UNCHANGED healthVars /\ UNCHANGED saveVars

Next ==
    \/ SearchOCA \/ SearchReddit \/ SearchStackOverflow \/ ResearchReturn
    \/ Filter \/ Format \/ Save \/ Return \/ Tick

Spec == Init /\ [][Next]_vars

\* Specification SpecCli: main run with a --max-results that is not positive
\* (type=int accepts every integer)
NonPositiveMaxResults == {-1, 0}

InitCli == InitArgs(NonPositiveMaxResults)

SpecCli == InitCli /\ [][Next]_vars

----------------------------------------------------------------------------
(* Specifications SpecNote and SpecNoteSeq: runs calling save_to_daily_note *)
(* on the same day into the same directory.  SpecNote interleaves the      *)
(* steps of the runs freely; SpecNoteSeq starts a call only when no other  *)
(* call is under way.                                                      *)

Runs == 1..NumRuns
MaxBlocks == 2

\* the citations payload of call number c with n citation blocks
Payload(c, n) == [i \in 1..n |-> [block |-> "citation", call |-> c, n |-> i]]

InitNote ==
    /\ IdleMain /\ IdleScore /\ IdleSave /\ IdleFormat /\ IdleWizard /\ IdleHealth /\ IdleAddons /\ IdleSnippet
    /\ note = Absent

\* entry of save_to_daily_note: output_dir.mkdir, today, note_path
CallSave(p) ==
    /\ spc[p] \in {"idle", "done"}
    /\ Len(call_log) < MaxCalls
    /\ \E n \in 0..MaxBlocks :
        /\ payload' = [payload EXCEPT ![p] = Payload(Len(call_log) + 1, n)]
        /\ call_log' = Append(call_log, Payload(Len(call_log) + 1, n))
    /\ spc' = [spc EXCEPT ![p] = "check"]
    /\ UNCHANGED note /\ UNCHANGED mainVars /\ UNCHANGED scoreVars /\ UNCHANGED formatVars /\ UNCHANGED addonVars /\ UNCHANGED wizardVars /\ UNCHANGED snippetVars /\ UNCHANGED healthVars

\* the same, entered only while no other call is under way
CallSaveAlone(p) ==
    /\ \A q \in Runs : spc[q] \in {"idle", "done"}
    /\ CallSave(p)

\* if not note_path.exists():
CheckExists(p) ==
    /\ spc[p] = "check"
    /\ spc' = [spc EXCEPT ![p] = IF ~Exists(note) THEN "header" ELSE "append"]
    /\ UNCHANGED <<note, payload, call_log>>
    /\ UNCHANGED mainVars /\ UNCHANGED scoreVars /\ UNCHANGED formatVars /\ UNCHANGED addonVars /\ UNCHANGED wizardVars /\ UNCHANGED snippetVars /\ UNCHANGED healthVars

\* note_path.write_text(header)
WriteHeader(p) ==
    /\ spc[p] = "header"
    /\ note' = write_text(note, Header(now))
    /\ spc' = [spc EXCEPT ![p] = "append"]
    /\ UNCHANGED <<payload, call_log>>
    /\ UNCHANGED mainVars /\ UNCHANGED scoreVars /\ UNCHANGED formatVars /\ UNCHANGED addonVars /\ UNCHANGED wizardVars /\ UNCHANGED snippetVars /\ UNCHANGED healthVars

\* with open(note_path, 'a') as f: f.write(citations); return note_path
AppendCitations(p) ==
    /\ spc[p] = "append"
    /\ note' = append_write(note, payload[p])
    /\ spc' = [spc EXCEPT ![p] = "done"]
    /\ UNCHANGED <<payload, call_log>>
    /\ UNCHANGED mainVars /\ UNCHANGED scoreVars /\ UNCHANGED formatVars /\ UNCHANGED addonVars /\ UNCHANGED wizardVars /\ UNCHANGED snippetVars /\ UNCHANGED healthVars

NextNote ==
    \E p \in Runs : CallSave(p) \/ CheckExists(p) \/ WriteHeader(p) \/ AppendCitations(p)

SpecNote == InitNote /\ [][NextNote]_vars

NextNoteSeq ==
    \E p \in Runs : CallSaveAlone(p) \/ CheckExists(p) \/ WriteHeader(p) \/ AppendCitations(p)

SpecNoteSeq == InitNote /\ [][NextNoteSeq]_vars

----------------------------------------------------------------------------
(* Specification SpecFormat: one call of CitationFormatter.format *)

\* the keys format reads with a subscript: item['title'], item['url'],
\* item['source_type']
RequiredKeys == {"title", "url", "source_type"}

BareItem(source_type) ==
    [title |-> <<"computed field cache">>,
     url |-> <<"https://reddit.com", "/r/odoo/a">>,
     source_type |-> source_type]

Restrict(d, keys) == [k \in keys |-> d[k]]

WithCreated(d, year) ==
    [k \in DOMAIN d \cup {"created"} |-> IF k = "created" THEN year ELSE d[k]]

\* items with the three required keys, with and without a date, and items
\* lacking one required key
FormatItems ==
    {BareItem(t) : t \in SourceTypes}
    \cup {WithCreated(BareItem(t), y) : t \in SourceTypes, y \in {2020, FirstNow}}
    \cup {Restrict(BareItem("reddit"), RequiredKeys \ {k}) : k \in RequiredKeys}

\* the snippet and takeaway keyword arguments of the call: each absent, '' or a text
FormatKwargs ==
    UNION {[passed -> {<<>>, <<"text">>}] : passed \in SUBSET {"snippet", "takeaway"}}

KeyError == [block |-> "KeyError"]

\* format(item, **kwargs): the parameter defaults, then the body, which raises
\* KeyError at the first subscript of a key the item lacks
format_call(item, kwargs, nowYear) ==
    IF RequiredKeys \subseteq DOMAIN item
    THEN format(item, Get(kwargs, "snippet", <<>>), Get(kwargs, "takeaway", <<>>),
                <<>>, <<>>, nowYear)
    ELSE KeyError

InitFormat ==
    /\ IdleMain /\ IdleScore /\ IdleSave /\ IdleAddons /\ IdleWizard /\ IdleHealth /\ IdleSnippet
    /\ note = Absent
    /\ f_in \in [item : FormatItems, kwargs : FormatKwargs]
    /\ f_out = <<>>

CallFormat ==
    /\ f_in # NoInput /\ f_out = <<>>
    /\ f_out' = <<format_call(f_in.item, f_in.kwargs, now)>>
    /\ UNCHANGED <<f_in, note>>
    /\ UNCHANGED mainVars /\ UNCHANGED scoreVars /\ UNCHANGED saveVars
    /\ UNCHANGED addonVars /\ UNCHANGED wizardVars /\ UNCHANGED snippetVars /\ UNCHANGED healthVars

NextFormat == CallFormat

SpecFormat == InitFormat /\ [][NextFormat]_vars

----------------------------------------------------------------------------
(* Specification SpecSnippet: one call of OCAGitHubCrawler.extract_snippet  *)
(* on a content of at most MaxLines lines, or on None                       *)

MaxLines == 3

LinePool ==
    {Line("", "from odoo import models"), Line("", "class A(models.Model):"),
     Line("    ", "@api.depends('x')"),
     Line("    ", "def _compute_y(self):  # def create("),
     Line("    ", "_name = 'a'"), Line("    ", ""), Line("", "")}

\* None, '' and the texts of one to MaxLines lines
Contents ==
    {[ok |-> FALSE, text |-> <<>>]}
    \cup {[ok |-> TRUE, text |-> t] : t \in UNION {[1..n -> LinePool] : n \in 0..MaxLines}}

InitSnippet ==
    /\ IdleMain /\ IdleScore /\ IdleSave /\ IdleFormat /\ IdleWizard /\ IdleHealth /\ IdleAddons
    /\ note = Absent
    /\ snip_in \in Contents
    /\ snip_out = <<>>

\* snippet = self.extract_snippet(content)
ExtractSnippet ==
    /\ snip_in # NoInput /\ snip_out = <<>>
    /\ snip_out' = <<extract_snippet(snip_in)>>
    /\ UNCHANGED snip_in
    /\ UNCHANGED note /\ UNCHANGED mainVars /\ UNCHANGED scoreVars /\ UNCHANGED saveVars
    /\ UNCHANGED formatVars /\ UNCHANGED addonVars /\ UNCHANGED wizardVars /\ UNCHANGED healthVars

NextSnippet == ExtractSnippet

SpecSnippet == InitSnippet /\ [][NextSnippet]_vars

----------------------------------------------------------------------------
(* The Odoo addon models.  The stored records of a model are a sequence     *)
(* indexed by id and a recordset is a set of ids.  A char field is the      *)
(* sequence of its characters.  A call that raises rolls its transaction    *)
(* back: the stored records are those from before the call.                 *)

pipelineVars == <<mainVars, scoreVars, saveVars, formatVars, note>>

\* self.ensure_one()
ensure_one(self) == Cardinality(self) = 1

\* self.write(vals) applied to the stored records recs
write(recs, self, vals) ==
    [i \in DOMAIN recs |->
        IF i \in self
        THEN [f \in DOMAIN recs[i] |-> IF f \in DOMAIN vals THEN vals[f] ELSE recs[i][f]]
        ELSE recs[i]]

\* the outcome of a method that begins with ensure_one
Singleton(self) == IF ensure_one(self) THEN "none" ELSE "ValueError"

RECURSIVE lstrip(_)
lstrip(s) == IF s # <<>> /\ Head(s) = " " THEN lstrip(Tail(s)) ELSE s

RECURSIVE rstrip(_)
rstrip(s) == IF s # <<>> /\ s[Len(s)] = " " THEN rstrip(SubSeq(s, 1, Len(s) - 1)) ELSE s

\* str.strip()
strip(s) == rstrip(lstrip(s))

\* str.startswith(prefix)
startswith(s, prefix) == Len(s) >= Len(prefix) /\ SubSeq(s, 1, Len(prefix)) = prefix

----------------------------------------------------------------------------
(* Specification SpecExpense: expense.approval.request *)

MaxRequests == 2

NameChoices == {<<>>, <<" ">>, <<" ", " ", " ">>, <<"a">>, <<" ", "a", " ">>}

\* the constraint without the strip() test
_check_name_not_emptyNoStrip(records) ==
    IF \E record \in records : record.name = <<>>
    THEN "ValidationError" ELSE "none"

\* @api.constrains("name"), over the records created or written
_check_name_not_empty(records) ==
    IF \E record \in records : record.name = <<>> \/ strip(record.name) = <<>>
    THEN "ValidationError" ELSE "none"

\* the selection of the state field as a dict: value -> label
state_selection ==
    [draft |-> "Draft", submitted |-> "Submitted", approved |-> "Approved",
     rejected |-> "Rejected"]

\* f"{record.name} [{state_label}]": the characters of the name, then the
\* bracketed label ('' for a state outside the selection)
_compute_display_name_custom(record) ==
    record.name \o <<" [", Get(state_selection, record.state, ""), "]">>

\* the stored computed field recomputed for the records of self
recompute(recs, self) ==
    [i \in DOMAIN recs |->
        IF i \in self
        THEN [recs[i] EXCEPT !.display_name_custom = _compute_display_name_custom(recs[i])]
        ELSE recs[i]]

\* a write whose recomputation is triggered by name alone
request_writeDependsName(recs, self, vals) ==
    IF "name" \in DOMAIN vals
    THEN recompute(write(recs, self, vals), self)
    ELSE write(recs, self, vals)

\* write on expense.approval.request: the values, then the recomputation of
\* display_name_custom when a field of @api.depends("name", "state") is written
request_write(recs, self, vals) ==
    IF DOMAIN vals \cap {"name", "state"} # {}
    THEN recompute(write(recs, self, vals), self)
    ELSE write(recs, self, vals)

action_submit(recs, self) == request_write(recs, self, [state |-> "submitted"])

action_approve(recs, self) == request_write(recs, self, [state |-> "approved"])

\* action_reject writing a state that is not in the selection
action_rejectRefused(recs, self) == request_write(recs, self, [state |-> "refused"])

action_reject(recs, self) == request_write(recs, self, [state |-> "rejected"])

action_reset_to_draft(recs, self) == request_write(recs, self, [state |-> "draft"])

InitExpense ==
    /\ IdleMain /\ IdleScore /\ IdleSave /\ IdleFormat /\ IdleWizard /\ IdleHealth /\ IdleAddons /\ IdleSnippet
    /\ note = Absent

\* create({"name": name}): the field defaults, the computed field, then the
\* constraint
RequestCreate ==
    /\ Len(requests) < MaxRequests
    /\ \E name \in NameChoices :
        LET values == [name |-> name, state |-> "draft"]
            record == values @@ [display_name_custom |-> _compute_display_name_custom(values)]
            error == _check_name_not_empty({record})
        IN  /\ requests' = IF error = "none" THEN Append(requests, record) ELSE requests
            /\ orm_call' = [model |-> "expense.approval.request", op |-> "create",
                            args |-> [name |-> name], error |-> error]
    /\ UNCHANGED <<documents, steps, runs, step_runs>>
    /\ UNCHANGED pipelineVars /\ UNCHANGED wizardVars /\ UNCHANGED snippetVars /\ UNCHANGED healthVars

\* write({"name": name}) on a recordset, then the constraint on its records
RequestWrite ==
    /\ \E self \in SUBSET DOMAIN requests, name \in NameChoices :
        LET written == request_write(requests, self, [name |-> name])
            error == _check_name_not_empty({written[i] : i \in self})
        IN  /\ requests' = IF error = "none" THEN written ELSE requests
            /\ orm_call' = [model |-> "expense.approval.request", op |-> "write",
                            args |-> [self |-> self, name |-> name], error |-> error]
    /\ UNCHANGED <<documents, steps, runs, step_runs>>
    /\ UNCHANGED pipelineVars /\ UNCHANGED wizardVars /\ UNCHANGED snippetVars /\ UNCHANGED healthVars

\* one of the four action methods called on the recordset self
RequestAction(op, self, written) ==
    /\ requests' = IF ensure_one(self) THEN written ELSE requests
    /\ orm_call' = [model |-> "expense.approval.request", op |-> op,
                    args |-> [self |-> self,
                              before |-> {requests[i].state : i \in self}],
                    error |-> Singleton(self)]
    /\ UNCHANGED <<documents, steps, runs, step_runs>>
    /\ UNCHANGED pipelineVars /\ UNCHANGED wizardVars /\ UNCHANGED snippetVars /\ UNCHANGED healthVars

ActionSubmit ==
    \E self \in SUBSET DOMAIN requests :
        RequestAction("action_submit", self, action_submit(requests, self))

ActionApprove ==
    \E self \in SUBSET DOMAIN requests :
        RequestAction("action_approve", self, action_approve(requests, self))

ActionReject ==
    \E self \in SUBSET DOMAIN requests :
        RequestAction("action_reject", self, action_reject(requests, self))

ActionResetToDraft ==
    \E self \in SUBSET DOMAIN requests :
        RequestAction("action_reset_to_draft", self, action_reset_to_draft(requests, self))

NextExpense ==
    \/ RequestCreate
    \/ RequestWrite
    \/ ActionSubmit
    \/ ActionApprove
    \/ ActionReject
    \/ ActionResetToDraft

SpecExpense == InitExpense /\ [][NextExpense]_vars

----------------------------------------------------------------------------
(* Specification SpecSopDocument: creation of qms.sop.document records *)

MaxDocuments == 3

SOP_PREFIX == <<"S", "O", "P", "-">>

CodeChoices ==
    {<<"S", "O", "P", "-", "1">>, <<"S", "O", "P", "-", "2">>, <<"S", "O", "P", "-", "3">>,
     <<"s", "o", "p", "-", "1">>, <<"X", "S", "O", "P", "-">>, <<"S", "O", "P">>}

\* ('code_unique', 'UNIQUE(code)'): whether the insert of code passes
code_unique(docs, code) == \A i \in DOMAIN docs : docs[i].code # code

\* the constraint testing 'SOP-' in record.code
_check_code_formatContains(records) ==
    IF \E record \in records :
        ~\E k \in 1..Len(record.code) :
            startswith(SubSeq(record.code, k, Len(record.code)), SOP_PREFIX)
    THEN "ValidationError" ELSE "none"

\* @api.constrains('code'), over the records created
_check_code_format(records) ==
    IF \E record \in records : ~startswith(record.code, SOP_PREFIX)
    THEN "ValidationError" ELSE "none"

InitSopDocument ==
    /\ IdleMain /\ IdleScore /\ IdleSave /\ IdleFormat /\ IdleWizard /\ IdleHealth /\ IdleAddons /\ IdleSnippet
    /\ note = Absent

\* create({'name', 'code', 'category'}): the insert, which the unique index
\* can refuse, then the constraint
DocumentCreate ==
    /\ Len(documents) < MaxDocuments
    /\ \E code \in CodeChoices, category \in {"build", "deploy"} :
        LET record == [code |-> code, category |-> category]
            error == IF ~code_unique(documents, code) THEN "IntegrityError"
                     ELSE _check_code_format({record})
        IN  /\ documents' = IF error = "none" THEN Append(documents, record) ELSE documents
            /\ orm_call' = [model |-> "qms.sop.document", op |-> "create",
                            args |-> record, error |-> error]
    /\ UNCHANGED <<requests, steps, runs, step_runs>>
    /\ UNCHANGED pipelineVars /\ UNCHANGED wizardVars /\ UNCHANGED snippetVars /\ UNCHANGED healthVars

NextSopDocument == DocumentCreate

SpecSopDocument == InitSopDocument /\ [][NextSopDocument]_vars

----------------------------------------------------------------------------
(* Specifications SpecSopRunCreate and SpecSopRunWorkflow: qms.sop.run.    *)
(* The first adds steps to two SOPs and creates runs of them; the second   *)
(* creates runs of one SOP and moves them through their states.            *)

MaxSteps == 3
MaxRuns == 2

\* the values fields.Datetime.now() returns
Times == {1, 2}

TwoSops ==
    <<[code |-> <<"S", "O", "P", "-", "1">>, category |-> "build"],
      [code |-> <<"S", "O", "P", "-", "2">>, category |-> "deploy"]>>

\* run.sop_id.step_ids, in the model's order (sop_id, sequence, id) with the
\* default sequence
step_ids(sop) ==
    SelectSeq([i \in 1..Len(steps) |-> i], LAMBDA step : steps[step].sop_id = sop)

\* step runs for every stored step, whatever its SOP
create_step_runsAllSteps(run_id, sop) ==
    [k \in 1..Len(steps) |-> [run_id |-> run_id, step_id |-> k, state |-> "pending"]]

\* the loop of QmsSopRun.create: one StepRun.create per step of the run's SOP
create_step_runs(run_id, sop) ==
    [k \in 1..Len(step_ids(sop)) |->
        [run_id |-> run_id, step_id |-> step_ids(sop)[k], state |-> "pending"]]

\* action_fail writing the state alone
action_failNoEndDate(recs, self, t) == write(recs, self, [state |-> "failed"])

action_start(recs, self, t) ==
    write(recs, self, [state |-> "in_progress", start_date |-> <<t>>])

action_complete(recs, self, t) ==
    write(recs, self, [state |-> "completed", end_date |-> <<t>>])

action_fail(recs, self, t) ==
    write(recs, self, [state |-> "failed", end_date |-> <<t>>])

InitSopRunCreate ==
    /\ IdleMain /\ IdleScore /\ IdleSave /\ IdleFormat /\ IdleWizard /\ IdleHealth /\ IdleSnippet
    /\ note = Absent
    /\ requests = <<>>
    /\ documents = TwoSops
    /\ steps = <<>> /\ runs = <<>> /\ step_runs = <<>>
    /\ orm_call = NoCall

InitSopRunWorkflow ==
    /\ IdleMain /\ IdleScore /\ IdleSave /\ IdleFormat /\ IdleWizard /\ IdleHealth /\ IdleSnippet
    /\ note = Absent
    /\ requests = <<>>
    /\ documents = SubSeq(TwoSops, 1, 1)
    /\ steps = <<[sop_id |-> 1]>> /\ runs = <<>> /\ step_runs = <<>>
    /\ orm_call = NoCall

\* qms.sop.step create({'sop_id': sop, 'title': ...})
StepCreate ==
    /\ Len(steps) < MaxSteps
    /\ \E sop \in DOMAIN documents :
        /\ steps' = Append(steps, [sop_id |-> sop])
        /\ orm_call' = [model |-> "qms.sop.step", op |-> "create",
                        args |-> [sop_id |-> sop], error |-> "none"]
    /\ UNCHANGED <<requests, documents, runs, step_runs>>
    /\ UNCHANGED pipelineVars /\ UNCHANGED wizardVars /\ UNCHANGED snippetVars /\ UNCHANGED healthVars

\* QmsSopRun.create({'sop_id': sop}): super().create with the field defaults,
\* then the step runs
RunCreate ==
    /\ Len(runs) < MaxRuns
    /\ \E sop \in DOMAIN documents, t \in Times :
        LET run == [sop_id |-> sop, state |-> "draft",
                    start_date |-> <<t>>, end_date |-> <<>>]
        IN  /\ runs' = Append(runs, run)
            /\ step_runs' = step_runs \o create_step_runs(Len(runs) + 1, sop)
            /\ orm_call' = [model |-> "qms.sop.run", op |-> "create",
                            args |-> [sop_id |-> sop, now |-> t], error |-> "none"]
    /\ UNCHANGED <<requests, documents, steps>>
    /\ UNCHANGED pipelineVars /\ UNCHANGED wizardVars /\ UNCHANGED snippetVars /\ UNCHANGED healthVars

\* one of the three action methods called on the recordset self at time t
RunAction(op, self, t, written) ==
    /\ runs' = IF ensure_one(self) THEN written ELSE runs
    /\ orm_call' = [model |-> "qms.sop.run", op |-> op,
                    args |-> [self |-> self, now |-> t], error |-> Singleton(self)]
    /\ UNCHANGED <<requests, documents, steps, step_runs>>
    /\ UNCHANGED pipelineVars /\ UNCHANGED wizardVars /\ UNCHANGED snippetVars /\ UNCHANGED healthVars

ActionStart ==
    \E self \in SUBSET DOMAIN runs, t \in Times :
        RunAction("action_start", self, t, action_start(runs, self, t))

ActionComplete ==
    \E self \in SUBSET DOMAIN runs, t \in Times :
        RunAction("action_complete", self, t, action_complete(runs, self, t))

ActionFail ==
    \E self \in SUBSET DOMAIN runs, t \in Times :
        RunAction("action_fail", self, t, action_fail(runs, self, t))

NextSopRunCreate == StepCreate \/ RunCreate

SpecSopRunCreate == InitSopRunCreate /\ [][NextSopRunCreate]_vars

NextSopRunWorkflow == RunCreate \/ ActionStart \/ ActionComplete \/ ActionFail

SpecSopRunWorkflow == InitSopRunWorkflow /\ [][NextSopRunWorkflow]_vars

----------------------------------------------------------------------------
(* Specification SpecDispatch: one call of                                 *)
(* PulserGitopsWizard.action_dispatch on one wizard record.  A Python dict *)
(* is [dict |-> items] with the items in insertion order, a string value   *)
(* is [str |-> text]; a serialization is the sequence of its tokens.       *)

Str(text) == [str |-> text]
Dict(items) == [dict |-> items]
Item(key, value) == [key |-> key, value |-> value]

\* the order of the keys as Python compares strings
KeyRank(key) ==
    CASE key = "ENVIRONMENT" -> 1
      [] key = "branch" -> 2
      [] key = "client_payload" -> 3
      [] key = "event_type" -> 4
      [] key = "kv" -> 5
      [] key = "message" -> 6

RECURSIVE sort_keys(_)
sort_keys(items) ==
    IF items = <<>> THEN <<>>
    ELSE LET m == CHOOSE i \in DOMAIN items :
                    \A j \in DOMAIN items : KeyRank(items[i].key) <= KeyRank(items[j].key)
         IN  <<items[m]>> \o sort_keys(SubSeq(items, 1, m - 1)
                                       \o SubSeq(items, m + 1, Len(items)))

RECURSIVE dumps(_, _)
RECURSIVE dump_items(_, _)
\* json.dumps(value, sort_keys=sorted)
dumps(value, sorted) ==
    IF "str" \in DOMAIN value THEN <<"\"">> \o value.str \o <<"\"">>
    ELSE <<"{">> \o dump_items(IF sorted THEN sort_keys(value.dict) ELSE value.dict, sorted)
         \o <<"}">>

dump_items(items, sorted) ==
    IF items = <<>> THEN <<>>
    ELSE <<Head(items).key, ":">> \o dumps(Head(items).value, sorted)
         \o dump_items(Tail(items), sorted)

\* the body requests.post(json=payload) sends: json.dumps(payload) with the
\* keys in insertion order
request_body(value) == dumps(value, FALSE)

\* base64.b64decode of the secrets the parameter can hold
b64decode(text) ==
    IF text = <<"dGVzdC1zZWNyZXQta2V5">>
    THEN [raised |-> FALSE, bytes |-> <<"test-secret-key">>]
    ELSE [raised |-> TRUE, bytes |-> <<>>]

\* hmac.new(key, msg, hashlib.sha256).hexdigest(): one digest per key and message
hmac_sha256(key, msg) == [hmac_key |-> key, hmac_msg |-> msg]

\* the payload dict of action_dispatch
build_payload(wizard) ==
    Dict(<<Item("event_type", Str(<<"deploy_request">>)),
           Item("client_payload",
                Dict(<<Item("branch", Str(wizard.branch)),
                       Item("message", Str(wizard.message))>>
                     \o (IF wizard.kv_key # <<>>
                         THEN <<Item("kv", Dict(<<Item(wizard.kv_key[1],
                                                       Str(wizard.kv_value))>>))>>
                         ELSE <<>>)))>>)

\* not IrConfigParameter.get_param(key): the parameter is absent or ''
not_param(params, key) == key \notin DOMAIN params \/ params[key] = <<>>

\* the parameters in another order of reading
RequiredParamsTokenFirst ==
    <<"pulser.github.token", "pulser.webhook.secret", "pulser.github.repo">>

\* the parameters in the order action_dispatch reads them
RequiredParams ==
    <<"pulser.webhook.secret", "pulser.github.token", "pulser.github.repo">>

Outcome(raised, message, posts, result) ==
    [raised |-> raised, message |-> message, posts |-> posts, result |-> result]

\* requests.post(url, json=payload, headers=headers, timeout=10)
post_request(wizard, params, signature) ==
    [url |-> <<"https://api.github.com/repos/">> \o params["pulser.github.repo"]
             \o <<"/dispatches">>,
     body |-> request_body(build_payload(wizard)),
     headers |-> ("Authorization" :> (<<"Bearer ">> \o params["pulser.github.token"]))
                 @@ ("Accept" :> <<"application/vnd.github+json">>)
                 @@ ("X-GitHub-Api-Version" :> <<"2022-11-28">>)
                 @@ ("X-Pulser-Signature" :> <<"sha256=", signature>>)]

\* the handling of what requests.post gave
handle_response(answer, posts) ==
    IF answer.kind = "Timeout"
    THEN Outcome("UserError", [text |-> "GitHub API request timeout."], posts, <<>>)
    ELSE IF answer.kind = "ConnectionError"
    THEN Outcome("UserError", [text |-> "Failed to connect to GitHub API."], posts, <<>>)
    ELSE IF answer.kind = "RequestException"
    THEN Outcome("UserError", [text |-> "GitHub API request failed."], posts, <<>>)
    ELSE IF answer.status_code = 204
    THEN Outcome("none", [text |-> "Dispatched to"], posts,
                 <<[type |-> "ir.actions.client", tag |-> "display_notification",
                    params |-> [title |-> "Success", sticky |-> FALSE,
                                type |-> "success"]]>>)
    ELSE IF answer.body \in {"object with message", "object"}
    THEN Outcome("ValidationError",
                 [text |-> "GitHub API error: ", status_code |-> answer.status_code,
                  error_msg |-> IF answer.body = "object with message"
                                THEN "body message" ELSE "response.text"],
                 posts, <<>>)
    ELSE Outcome("AttributeError", [text |-> "object has no attribute 'get'"], posts, <<>>)

action_dispatch(wizard, params, answer) ==
    LET missing == {k \in DOMAIN RequiredParams : not_param(params, RequiredParams[k])}
    IN  IF missing # {}
        THEN LET first == CHOOSE k \in missing : \A j \in missing : k <= j
             IN  Outcome("ValidationError",
                         [text |-> "Missing", param |-> RequiredParams[first]], <<>>, <<>>)
        ELSE LET key == b64decode(params["pulser.webhook.secret"])
                 payload_str == dumps(build_payload(wizard), TRUE)
             IN  IF key.raised
                 THEN Outcome("ValidationError",
                              [text |-> "Failed to generate HMAC signature."], <<>>, <<>>)
                 ELSE handle_response(
                          answer,
                          <<post_request(wizard, params,
                                         hmac_sha256(key.bytes, payload_str))>>)

\* the system parameters: each absent, '' or set
ParamStores ==
    {("pulser.webhook.secret" :> s) @@ ("pulser.github.token" :> t)
        @@ ("pulser.github.repo" :> r) :
        s \in {<<>>, <<"dGVzdC1zZWNyZXQta2V5">>, <<"not base64">>},
        t \in {<<>>, <<"ghp_test_token">>},
        r \in {<<>>, <<"test-org/test-repo">>}}

Without(d, keys) == [k \in DOMAIN d \ keys |-> d[k]]

Wizards ==
    {[branch |-> <<"main">>, message |-> <<"Deploy">>, kv_key |-> k, kv_value |-> v] :
        k \in {<<>>, <<"ENVIRONMENT">>}, v \in {<<>>, <<"production">>}}

\* what requests.post returns or raises
Answers ==
    {[kind |-> "response", status_code |-> c, body |-> b] :
        c \in {204, 200, 401, 502},
        b \in {"object with message", "object", "array", "text"}}
    \cup {[kind |-> k] : k \in {"Timeout", "ConnectionError", "RequestException"}}

InitDispatch ==
    /\ IdleMain /\ IdleScore /\ IdleSave /\ IdleFormat /\ IdleHealth /\ IdleAddons /\ IdleSnippet
    /\ note = Absent
    /\ \E wizard \in Wizards, store \in ParamStores, answer \in Answers,
          absent \in SUBSET {"pulser.webhook.secret", "pulser.github.token",
                             "pulser.github.repo"} :
        /\ \A k \in absent : store[k] = <<>>
        /\ w_in = [wizard |-> wizard, params |-> Without(store, absent),
                   answer |-> answer]
    /\ w_out = <<>>

Dispatch ==
    /\ w_in # NoInput /\ w_out = <<>>
    /\ w_out' = <<action_dispatch(w_in.wizard, w_in.params, w_in.answer)>>
    /\ UNCHANGED w_in
    /\ UNCHANGED pipelineVars /\ UNCHANGED addonVars /\ UNCHANGED healthVars /\ UNCHANGED snippetVars

NextDispatch == Dispatch

SpecDispatch == InitDispatch /\ [][NextDispatch]_vars

----------------------------------------------------------------------------
(* Specification SpecHealth: one run of scripts/health_check.py.  Each     *)
(* check is one action; what the network, the XML-RPC server and the clock *)
(* give is chosen among the outcomes the check tells apart.                *)

\* the checks in the order run_all_checks calls them
BasicChecks ==
    <<"http_connectivity", "health_endpoint", "database_connectivity",
      "odoo_responsiveness">>

ComprehensiveChecks ==
    <<"module_loading", "filestore_access", "response_time", "critical_workflows">>

\* _mark_unhealthy writing the entry alone
_mark_unhealthyEntryOnly(res, check_name, message) ==
    [res EXCEPT !.checks = (check_name :> [status |-> "unhealthy", message |-> message])
                               @@ res.checks]

_mark_unhealthy(res, check_name, message) ==
    [status |-> "unhealthy",
     checks |-> (check_name :> [status |-> "unhealthy", message |-> message])
                @@ res.checks]

\* self.results['checks'][check_name] = {'status': 'healthy', ...}
set_healthy(res, check_name, message) ==
    [res EXCEPT !.checks = (check_name :> [status |-> "healthy", message |-> message])
                               @@ res.checks]

\* the step after a check: the next check, or the summary after the last
\* check of the mode
after_check(check_name, mode) ==
    LET all == BasicChecks \o ComprehensiveChecks
        k == CHOOSE i \in DOMAIN all : all[i] = check_name
    IN  IF k = Len(all) \/ (k = Len(BasicChecks) /\ ~mode) THEN "summary"
        ELSE all[k + 1]

InitHealth ==
    /\ IdleMain /\ IdleScore /\ IdleSave /\ IdleFormat /\ IdleWizard /\ IdleAddons /\ IdleSnippet
    /\ note = Absent
    /\ h_pc = "http_connectivity"
    /\ comprehensive \in BOOLEAN
    /\ h_results = [status |-> "healthy", checks |-> <<>>]
    /\ partners = {}
    /\ h_exit = -1

\* a check that does not touch the database: results is what it leaves
CheckStep(check_name, left) ==
    /\ h_pc = check_name
    /\ h_results' = left
    /\ h_pc' = after_check(check_name, comprehensive)
    /\ UNCHANGED <<comprehensive, partners, h_exit>>
    /\ UNCHANGED pipelineVars /\ UNCHANGED addonVars /\ UNCHANGED wizardVars /\ UNCHANGED snippetVars

_check_http_connectivity ==
    \E outcome \in {"connected", "refused", "raise"} :
        CheckStep("http_connectivity",
            IF outcome = "connected"
            THEN set_healthy(h_results, "http_connectivity", "TCP connection successful")
            ELSE IF outcome = "refused"
            THEN _mark_unhealthy(h_results, "http_connectivity", "Cannot connect")
            ELSE _mark_unhealthy(h_results, "http_connectivity", "str(e)"))

_check_basic_health_endpoint ==
    \E outcome \in {"200", "other status", "URLError", "raise"} :
        CheckStep("health_endpoint",
            IF outcome = "200"
            THEN set_healthy(h_results, "health_endpoint", "Health endpoint responding")
            ELSE IF outcome = "other status"
            THEN _mark_unhealthy(h_results, "health_endpoint", "HTTP status")
            ELSE IF outcome = "URLError"
            THEN _mark_unhealthy(h_results, "health_endpoint", "URLError")
            ELSE _mark_unhealthy(h_results, "health_endpoint", "str(e)"))

_check_database_connectivity ==
    \E outcome \in {"listed", "not listed", "raise"} :
        CheckStep("database_connectivity",
            IF outcome = "listed"
            THEN set_healthy(h_results, "database_connectivity", "Database accessible")
            ELSE IF outcome = "not listed"
            THEN _mark_unhealthy(h_results, "database_connectivity", "Database not found")
            ELSE _mark_unhealthy(h_results, "database_connectivity",
                                 "Database connectivity failed"))

_check_odoo_responsiveness ==
    \E outcome \in {"uid", "no uid", "raise"} :
        CheckStep("odoo_responsiveness",
            IF outcome = "uid"
            THEN set_healthy(h_results, "odoo_responsiveness", "Authentication successful")
            ELSE IF outcome = "no uid"
            THEN _mark_unhealthy(h_results, "odoo_responsiveness", "Authentication failed")
            ELSE _mark_unhealthy(h_results, "odoo_responsiveness",
                                 "Odoo server not responding"))

_check_module_loading ==
    \E outcome \in {"no uid", "pending", "loaded", "raise"} :
        CheckStep("module_loading",
            IF outcome = "no uid"
            THEN _mark_unhealthy(h_results, "module_loading", "Authentication failed")
            ELSE IF outcome = "pending"
            THEN _mark_unhealthy(h_results, "module_loading", "modules to upgrade or install")
            ELSE IF outcome = "loaded"
            THEN set_healthy(h_results, "module_loading", "modules installed")
            ELSE _mark_unhealthy(h_results, "module_loading", "Module check failed"))

_check_filestore_access ==
    \E outcome \in {"no uid", "counted", "raise"} :
        CheckStep("filestore_access",
            IF outcome = "no uid"
            THEN _mark_unhealthy(h_results, "filestore_access", "Authentication failed")
            ELSE IF outcome = "counted"
            THEN set_healthy(h_results, "filestore_access", "Filestore accessible")
            ELSE _mark_unhealthy(h_results, "filestore_access", "Filestore check failed"))

_check_response_time ==
    \E outcome \in {"p95 under 0.5", "p95 high", "raise"} :
        CheckStep("response_time",
            IF outcome = "p95 under 0.5"
            THEN set_healthy(h_results, "response_time", "Response time within SLA")
            ELSE IF outcome = "p95 high"
            THEN _mark_unhealthy(h_results, "response_time", "Response time too high")
            ELSE _mark_unhealthy(h_results, "response_time", "Response time check failed"))

\* what each XML-RPC call of the workflow check gives
RpcOutcomes ==
    [authenticate : {"uid", "no uid", "raise"},
     create : {"id", "raise"},
     search : {"found", "empty", "raise"},
     write : {"done", "raise"},
     unlink : {"done", "raise"}]

\* the body of _check_critical_workflows: the calls in order, the first that
\* raises ends the try block; [results, partners] is what it leaves
critical_workflows(res, db, rpc) ==
    LET name == "critical_workflows"
        partner_id == Cardinality(db) + 1
        created == db \cup {partner_id}
        failed(records) ==
            [results |-> _mark_unhealthy(res, name, "Workflow tests failed"),
             partners |-> records]
    IN  IF rpc.authenticate = "raise" THEN failed(db)
        ELSE IF rpc.authenticate = "no uid"
        THEN [results |-> _mark_unhealthy(res, name, "Authentication failed"),
              partners |-> db]
        ELSE IF rpc.create = "raise" THEN failed(db)
        ELSE IF rpc.search = "raise" THEN failed(created)
        ELSE IF rpc.write = "raise" THEN failed(created)
        ELSE IF rpc.unlink = "raise" THEN failed(created)
        ELSE IF rpc.search = "found"
        THEN [results |-> set_healthy(res, name, "CRUD operations successful"),
              partners |-> created \ {partner_id}]
        ELSE [results |-> _mark_unhealthy(res, name, "CRUD operations failed"),
              partners |-> created \ {partner_id}]

_check_critical_workflows ==
    /\ h_pc = "critical_workflows"
    /\ \E rpc \in RpcOutcomes :
        LET left == critical_workflows(h_results, partners, rpc)
        IN  /\ h_results' = left.results
            /\ partners' = left.partners
    /\ h_pc' = after_check("critical_workflows", comprehensive)
    /\ UNCHANGED <<comprehensive, h_exit>>
    /\ UNCHANGED pipelineVars /\ UNCHANGED addonVars /\ UNCHANGED wizardVars /\ UNCHANGED snippetVars

\* _print_summary and return self.results
Summary ==
    /\ h_pc = "summary"
    /\ h_pc' = "exit"
    /\ UNCHANGED <<comprehensive, h_results, partners, h_exit>>
    /\ UNCHANGED pipelineVars /\ UNCHANGED addonVars /\ UNCHANGED wizardVars /\ UNCHANGED snippetVars

\* main: sys.exit(0) if results['status'] == 'healthy' else sys.exit(1)
Exit ==
    /\ h_pc = "exit"
    /\ h_exit' = IF h_results.status = "healthy" THEN 0 ELSE 1
    /\ h_pc' = "done"
    /\ UNCHANGED <<comprehensive, h_results, partners>>
    /\ UNCHANGED pipelineVars /\ UNCHANGED addonVars /\ UNCHANGED wizardVars /\ UNCHANGED snippetVars

NextHealth ==
    \/ _check_http_connectivity
    \/ _check_basic_health_endpoint
    \/ _check_database_connectivity
    \/ _check_odoo_responsiveness
    \/ _check_module_loading
    \/ _check_filestore_access
    \/ _check_response_time
    \/ _check_critical_workflows
    \/ Summary
    \/ Exit

SpecHealth == InitHealth /\ [][NextHealth]_vars

----------------------------------------------------------------------------
(* Properties *)

\* the score table as the specification states it
TableBase(source_type, upvotes, accepted) ==
    CASE source_type = "oca" -> 90
      [] source_type = "forum" -> 70
      [] source_type = "official" -> 100
      [] source_type = "reddit" /\ upvotes >= 10 -> 75
      [] source_type = "reddit" /\ upvotes \in 5..9 -> 60
      [] source_type = "stackoverflow" /\ accepted /\ upvotes >= 20 -> 85
      [] source_type = "stackoverflow" /\ accepted /\ upvotes \in 10..19 -> 70
      [] source_type = "stackoverflow" /\ ~accepted /\ upvotes >= 10 -> 50
      [] OTHER -> 0

TableRecency(year) ==
    CASE year = 2025 -> 20
      [] year = 2024 -> 15
      [] year = 2023 -> 10
      [] year = 2022 -> 0
      [] year >= 2021 /\ year \notin 2022..2025 -> -20
      [] OTHER -> 0

TableAlignment(oca_aligned) == IF oca_aligned THEN 15 ELSE 0

\* the score of a collected item, with oca_aligned = (source_type == 'oca')
TableItemScore(r) ==
    TableBase(r.source_type, Get(r, "upvotes", 0), Get(r, "accepted", FALSE))
    + TableRecency(ItemDate(r, now)) + TableAlignment(r.source_type = "oca")

Returned == s_out # NoScore

\* C1: calculate returns base + recency + alignment of the documented table,
\* unclamped, for every input; a reddit item with 12 upvotes dated 2025 and
\* not OCA-aligned scores 95.
C1_ScoreIsTableSum ==
    Returned =>
        /\ s_out[1] = TableBase(s_in.source_type, s_in.upvotes, s_in.accepted)
                      + TableRecency(s_in.year) + TableAlignment(s_in.oca_aligned)
        /\ (s_in = [source_type |-> "reddit", year |-> 2025, upvotes |-> 12,
                    accepted |-> FALSE, oca_aligned |-> FALSE] => s_out[1] = 95)

C1_Witness ==
    /\ Returned
    /\ s_in.source_type = "reddit" /\ s_in.upvotes = 12 /\ s_in.year = 2025
    /\ ~s_in.oca_aligned
    /\ s_out[1] = 95

\* C3: for a date before 2021 the recency term contributes nothing: the
\* score is the base score plus the alignment bonus.
C3_NoRecencyBefore2021 ==
    (Returned /\ s_in.year < 2021) =>
        s_out[1] = BaseScore(s_in.source_type, s_in.upvotes, s_in.accepted)
                   + (IF s_in.oca_aligned THEN ALIGNMENT_BONUS.oca_compliant ELSE 0)

C3_Witness ==
    /\ Returned
    /\ s_in.year < 2021 /\ s_in.source_type = "reddit" /\ s_in.upvotes = 5
    /\ ~s_in.oca_aligned
    /\ s_out[1] = 60

AfterFilter == pc \in {"format", "save", "return", "done"}
AfterFormat == pc \in {"save", "return", "done"}
AfterSave == pc \in {"return", "done"}

CitationBlocks(file) == SelectSeq(file.content, LAMBDA b : b.block = "citation")

\* C2: the filter of main keeps a collected item iff its score is >= 60 (an
\* item scoring 60 is kept, a score of 59 is not acceptable), and only kept
\* items reach generate_citations and the note.
C2_FilterKeepsIffAtLeast60 ==
    /\ AfterFilter =>
        /\ filtered = SelectSeq(results, LAMBDA r : TableItemScore(r) >= 60)
        /\ ~is_acceptable(59)
    /\ AfterFormat =>
        /\ Len(citations) = Len(filtered)
        /\ \A i \in 1..Len(citations) :
            /\ citations[i].link = filtered[i].url
            /\ citations[i].date_str = ItemDate(filtered[i], now)
            /\ TableItemScore(filtered[i]) >= 60
    /\ AfterSave => CitationBlocks(note) = citations

C2_Witness ==
    /\ pc = "done"
    /\ \E i \in 1..Len(filtered) : TableItemScore(filtered[i]) = 60
    /\ \E i \in 1..Len(results) : TableItemScore(results[i]) < 60
    /\ Len(CitationBlocks(note)) < Len(results)

\* C4: for every item that passed the filter the Quality Score printed by
\* format is the score the filter computed for that item, so every
\* persisted citation shows a score >= 60.
C4_PrintedScoreIsFilterScore ==
    /\ AfterFormat =>
        /\ Len(citations) = Len(filter_scores)
        /\ \A i \in 1..Len(citations) :
            citations[i].score = filter_scores[i] /\ citations[i].score >= 60
    /\ AfterSave =>
        \A i \in 1..Len(note.content) :
            note.content[i].block = "citation" => note.content[i].score >= 60

C4_Witness ==
    /\ pc = "done" /\ now # FirstNow
    /\ \E i \in 1..Len(note.content) :
        note.content[i].block = "citation" /\ note.content[i].source_type = "Oca"
    /\ \E i \in 1..Len(note.content) :
        note.content[i].block = "citation" /\ note.content[i].score = 60

\* the number of queries run_research has to run
QueryCount(d, test) ==
    LET q == IF d \in DOMAIN _load_queries THEN _load_queries[d] ELSE NoQueries
        n(source) == IF source \in DOMAIN q THEN Len(q[source]) ELSE 0
    IN  n("oca") + n("reddit") + (IF test THEN 0 ELSE n("stackoverflow"))

\* C5: a crawler call whose HTTP call raises a network exception returns an
\* empty list and raises nothing, and run_research goes on with the next
\* query; when run_research returns, every query has been run.
C5_NetworkErrorYieldsEmptyAndContinues ==
    [][/\ (ncalls' = ncalls + 1 /\ last_call'.kind = "neterr") =>
            /\ results' = results
            /\ pc' = "research"
            /\ <<src', qi'>> = LoopPosition(domain, test_mode, src, qi + 1)
       /\ (pc = "research" /\ pc' = "filter") =>
            ncalls = QueryCount(domain, test_mode)]_vars

C5_Witness ==
    /\ pc = "research" /\ domain = "module_dev"
    /\ last_call.kind = "neterr"
    /\ src = "reddit" /\ qi = 1 /\ ncalls = 3 /\ results # <<>>

\* C6: no exception reaches run_research or main, whatever an upstream API
\* returns, malformed HTTP 200 bodies included.
C6_NoFatalError == pc # "crashed"

\* C9: main returns 0 iff at least 5 items remain after the filter, and 1
\* otherwise, whatever the raw result count and whether a call failed.
C9_ExitCodeIffFiveFiltered ==
    /\ pc = "done" => exit_code = (IF Len(filtered) >= 5 THEN 0 ELSE 1)
    /\ pc # "done" => exit_code = -1

C9_Witness ==
    /\ pc = "done" /\ exit_code = 0
    /\ last_call.kind = "neterr"

\* C10: for a domain without an entry in the query mapping (studio,
\* odoo_sh) no crawler is called, there are no results, nothing is raised
\* and main ends with a non-zero exit code.
C10_UnknownDomainYieldsNothing ==
    domain \in {"studio", "odoo_sh"} =>
        /\ ncalls = 0 /\ last_call.kind = "none"
        /\ results = <<>> /\ filtered = <<>> /\ citations = <<>>
        /\ pc # "crashed"
        /\ pc = "done" => exit_code # 0 /\ exit_code = 1

C10_Witness ==
    /\ domain = "studio" /\ pc = "done" /\ exit_code = 1
    /\ ncalls = 0 /\ CitationBlocks(note) = <<>>

RECURSIVE Flatten(_)
Flatten(ss) == IF ss = <<>> THEN <<>> ELSE Head(ss) \o Flatten(Tail(ss))

NoCallUnderWay == \A p \in Runs : spc[p] \in {"idle", "done"}

\* C7: after calls made one after another on the same day the note is the
\* header exactly once followed by the payloads of all calls, verbatim and
\* in call order.
C7_HeaderOnceThenPayloadsInOrder ==
    NoCallUnderWay =>
        IF call_log = <<>> THEN note = Absent
        ELSE /\ note.exists
             /\ note.content = <<Header(now)>> \o Flatten(call_log)

C7_Witness ==
    /\ NoCallUnderWay /\ Len(call_log) = 3
    /\ call_log[1] # <<>> /\ call_log[2] = <<>> /\ call_log[3] # <<>>
    /\ Len(note.content) = 1 + Len(call_log[1]) + Len(call_log[3])

IsPrefix(s, t) == Len(s) <= Len(t) /\ SubSeq(t, 1, Len(s)) = s

\* C8 as stated: no step of any run, concurrent runs included, removes or
\* changes what the note already holds.
C8_NothingEverRemoved == [][IsPrefix(note.content, note'.content)]_vars

\* C8 as amended: the only step that removes content is the header write of
\* a run that found the file absent before another run created it; every
\* other step leaves what the note holds in place.
C8_OnlyLateHeaderWriteRemoves ==
    [][\/ IsPrefix(note.content, note'.content)
       \/ \E p \in Runs :
            /\ spc[p] = "header" /\ spc'[p] = "append"
            /\ Exists(note)
            /\ note'.content = <<Header(now)>>]_vars

C8_Witness ==
    /\ NoCallUnderWay /\ Len(call_log) >= 2
    /\ \E i \in 1..Len(call_log) :
        /\ call_log[i] # <<>>
        /\ \A k \in 1..Len(note.content) : note.content[k] # call_log[i][1]
    /\ note.content[1] = Header(now)

\* the place of a source in the order run_research works through them
SourceRank(source_type) ==
    CASE source_type = "oca" -> 1
      [] source_type = "reddit" -> 2
      [] source_type = "stackoverflow" -> 3

\* the place of a collected item in the order of its upstream API
UpstreamRank(r) ==
    CASE r.source_type = "oca" ->
            CHOOSE k \in DOMAIN GitHubMatches : <<GitHubMatches[k].html_url>> = r.url
      [] r.source_type = "reddit" ->
            CHOOSE k \in DOMAIN RedditRelevance : RedditRelevance[k].permalink = r.url[2]
      [] r.source_type = "stackoverflow" ->
            CHOOSE k \in DOMAIN StackOverflowByVotes : <<StackOverflowByVotes[k].link>> = r.url

Range(s) == {s[i] : i \in DOMAIN s}

\* C11: main emits exactly one citation per item that passed the filter, in
\* processing order: a query appends its items at the end of the results in
\* the order the upstream returned them, queries run in list order and
\* sources in the order OCA, Reddit, Stack Overflow, and nothing after the
\* crawlers re-sorts or duplicates items.
C11_CitationsInProcessingOrder ==
    [][/\ (ncalls' = ncalls + 1 /\ pc' = "research") =>
            LET added == SubSeq(results', Len(results) + 1, Len(results'))
            IN  /\ IsPrefix(results, results')
                /\ \A i \in DOMAIN added : added[i].source_type = src
                /\ \A i, j \in DOMAIN added :
                    i < j => UpstreamRank(added[i]) < UpstreamRank(added[j])
                /\ <<src', qi'>> = LoopPosition(domain, test_mode, src, qi + 1)
                /\ \A i, j \in DOMAIN results' :
                    i < j => SourceRank(results'[i].source_type)
                             <= SourceRank(results'[j].source_type)
       /\ ncalls' = ncalls => results' = results
       /\ AfterFilter' =>
            filtered' = SelectSeq(results', LAMBDA r : r \in Range(filtered'))
       /\ AfterFormat' =>
            /\ Len(citations') = Len(filtered')
            /\ \A i \in DOMAIN citations' :
                /\ citations'[i].link = filtered'[i].url
                /\ citations'[i].title = filtered'[i].title
                /\ citations'[i].date_str = ItemDate(filtered'[i], now')
       /\ AfterSave' => CitationBlocks(note') = citations']_vars

C11_Witness ==
    /\ pc = "done"
    /\ \E i \in 1..(Len(results) - 1) :
        /\ results[i].source_type = "reddit" /\ results[i + 1].source_type = "reddit"
        /\ UpstreamRank(results[i]) < UpstreamRank(results[i + 1])
    /\ {c.source_type : c \in Range(citations)} = {"Oca", "Reddit", "Stackoverflow"}
    /\ Len(citations) < Len(results)
    /\ \E i \in 1..(Len(citations) - 1) : citations[i].link # citations[i + 1].link
                                          /\ citations[i].source_type = citations[i + 1].source_type

\* C12: no query contributes more items to the results than max_results,
\* whatever integer --max-results is (stated for the queries that contribute
\* an item at all).
C12_QueryContributesAtMostMaxResults ==
    [][(ncalls' = ncalls + 1 /\ Len(results') > Len(results)) =>
            Len(results') - Len(results) <= max_results]_vars

\* the number of queries the mapping holds for a domain and a source
MappedQueries(d, source) ==
    IF d \in DOMAIN _load_queries /\ source \in DOMAIN _load_queries[d]
    THEN Len(_load_queries[d][source]) ELSE 0

\* C13: in test mode run_research never calls StackOverflowCrawler.search
\* and collects no stackoverflow item, for every domain, while every OCA
\* and Reddit query of the domain is still run.
C13_TestModeSkipsStackOverflow ==
    test_mode =>
        /\ src # "stackoverflow" /\ last_call.source # "stackoverflow"
        /\ \A i \in DOMAIN results : results[i].source_type # "stackoverflow"
        /\ pc \in {"filter", "format", "save", "return", "done"} =>
            ncalls = MappedQueries(domain, "oca") + MappedQueries(domain, "reddit")

C13_Witness ==
    /\ test_mode /\ pc = "done" /\ domain = "module_dev"
    /\ ncalls = 5
    /\ \E i \in DOMAIN results : results[i].source_type = "oca"
    /\ \E i \in DOMAIN results : results[i].source_type = "reddit"

\* C14: every item a crawler's upvote pre-filter drops (Reddit: upvotes < 5,
\* Stack Overflow: upvotes < 10) scores below 60 for every date and every
\* accepted flag, so the acceptance predicate would reject it anyway.
C14_PrefilterDropsOnlyUnacceptable ==
    (/\ Returned
     /\ \/ s_in.source_type = "reddit" /\ s_in.upvotes < REDDIT_MIN_UPVOTES
        \/ s_in.source_type = "stackoverflow" /\ s_in.upvotes < STACKOVERFLOW_MIN_UPVOTES)
    => (s_out[1] < 60 /\ ~is_acceptable(s_out[1]))

C14_Witness ==
    /\ Returned
    /\ s_in.source_type = "stackoverflow" /\ s_in.upvotes = 9 /\ s_in.accepted
    /\ s_in.year = 2025 /\ ~s_in.oca_aligned
    /\ s_out[1] = 20

\* C15: format called with an empty or missing takeaway and an empty or
\* missing snippet yields the Takeaway 'Manual review required' and the
\* Snippet 'See link for details'; neither field is ever empty, and the call
\* does not raise for an item that carries title, url and source_type.
C15_EmptyFieldsGetFallbackText ==
    f_out # <<>> =>
        LET citation == f_out[1]
            takeaway == Get(f_in.kwargs, "takeaway", <<>>)
            snippet == Get(f_in.kwargs, "snippet", <<>>)
        IN  /\ RequiredKeys \subseteq DOMAIN f_in.item => citation # KeyError
            /\ citation # KeyError =>
                /\ citation.takeaway # <<>> /\ citation.snippet # <<>>
                /\ takeaway = <<>> => citation.takeaway = <<"Manual review required">>
                /\ snippet = <<>> => citation.snippet = <<"See link for details">>
                /\ takeaway # <<>> => citation.takeaway = takeaway
                /\ snippet # <<>> => citation.snippet = snippet

C15_Witness ==
    /\ f_out # <<>>
    /\ DOMAIN f_in.item = RequiredKeys
    /\ DOMAIN f_in.kwargs = {"takeaway"} /\ f_in.kwargs["takeaway"] = <<>>
    /\ f_out[1] # KeyError
    /\ f_out[1].takeaway = <<"Manual review required">>
    /\ f_out[1].snippet = <<"See link for details">>

\* the state each expense.approval.request action is to leave the record in
ExpectedRequestState ==
    [action_submit |-> "submitted", action_approve |-> "approved",
     action_reject |-> "rejected", action_reset_to_draft |-> "draft"]

\* C16: an expense.approval.request is created in state 'draft';
\* action_submit, action_approve, action_reject and action_reset_to_draft
\* leave the record they are called on in 'submitted', 'approved', 'rejected'
\* and 'draft' and touch no other record; after every call the state of
\* every record is one of those four values.
C16_ActionsLeaveTheirState ==
    [][ /\ (orm_call'.op = "create" /\ orm_call'.error = "none") =>
            /\ requests' = Append(requests, requests'[Len(requests')])
            /\ requests'[Len(requests')].state = "draft"
        /\ \A op \in DOMAIN ExpectedRequestState :
            (orm_call'.op = op /\ orm_call'.error = "none") =>
                \E i \in DOMAIN requests :
                    /\ orm_call'.args.self = {i}
                    /\ requests'[i].state = ExpectedRequestState[op]
                    /\ requests'[i].name = requests[i].name
                    /\ \A j \in DOMAIN requests \ {i} : requests'[j] = requests[j]
        /\ \A i \in DOMAIN requests' :
            requests'[i].state \in {"draft", "submitted", "approved", "rejected"}
      ]_vars

C16_Witness ==
    /\ orm_call.op = "action_reset_to_draft" /\ orm_call.error = "none"
    /\ orm_call.args.before = {"approved"}
    /\ \A i \in orm_call.args.self : requests[i].state = "draft"
    /\ \E j \in DOMAIN requests : requests[j].state = "rejected"

\* a name that is empty or holds nothing but spaces
Blank(name) == \A k \in 1..Len(name) : name[k] = " "

\* C17: no stored expense.approval.request has an empty or whitespace-only
\* name: creating a record with such a name, or writing such a name to
\* existing records, raises ValidationError and leaves the stored records
\* as they were.
C17_NoBlankNameStored ==
    [][ /\ \A i \in DOMAIN requests' : ~Blank(requests'[i].name)
        /\ (orm_call'.op = "create" /\ Blank(orm_call'.args.name)) =>
            (orm_call'.error = "ValidationError" /\ requests' = requests)
        /\ (/\ orm_call'.op = "write"
            /\ orm_call'.args.self # {}
            /\ Blank(orm_call'.args.name)) =>
            (orm_call'.error = "ValidationError" /\ requests' = requests)
      ]_vars

C17_Witness ==
    /\ orm_call.op = "write" /\ orm_call.args.self = {2}
    /\ orm_call.args.name = <<" ", " ", " ">>
    /\ orm_call.error = "ValidationError"
    /\ Len(requests) = 2
    /\ requests[2].name = <<" ", "a", " ">>

\* C18: creating a qms.sop.run for a SOP creates exactly one step run per
\* step the SOP has at that moment, each linked to the new run and
\* 'pending', and the run starts in 'draft'; a SOP without steps yields a
\* run without step runs.
C18_RunCreateMakesOneStepRunPerStep ==
    [][ (orm_call'.model = "qms.sop.run" /\ orm_call'.op = "create") =>
            LET sop == orm_call'.args.sop_id
                id == Len(runs')
                added == SubSeq(step_runs', Len(step_runs) + 1, Len(step_runs'))
                sop_steps == {step \in DOMAIN steps : steps[step].sop_id = sop}
            IN  /\ runs' = Append(runs, runs'[id])
                /\ runs'[id].sop_id = sop /\ runs'[id].state = "draft"
                /\ step_runs' = step_runs \o added
                /\ Len(added) = Cardinality(sop_steps)
                /\ {added[k].step_id : k \in DOMAIN added} = sop_steps
                /\ \A k \in DOMAIN added :
                    added[k].run_id = id /\ added[k].state = "pending"
      ]_vars

\* the step runs of a run
StepRunsOf(run) == {k \in DOMAIN step_runs : step_runs[k].run_id = run}

C18_Witness ==
    /\ Len(runs) = 2
    /\ runs[1].sop_id = 2 /\ StepRunsOf(1) = {}
    /\ runs[2].sop_id = 1 /\ Cardinality(StepRunsOf(2)) = 2
    /\ \E step \in DOMAIN steps : steps[step].sop_id = 2
    /\ runs[1].state = "draft" /\ runs[2].state = "draft"

\* the state each qms.sop.run action is to leave the run in
ExpectedRunState ==
    [action_start |-> "in_progress", action_complete |-> "completed",
     action_fail |-> "failed"]

\* C19: action_start sets 'in_progress' and start_date, action_complete sets
\* 'completed' and end_date, action_fail sets 'failed' and end_date; a run in
\* 'completed' or 'failed' has its end_date set; acting on one run leaves
\* every other run unchanged.
C19_RunActionsSetStateAndDate ==
    [][ /\ \A op \in DOMAIN ExpectedRunState :
            (orm_call'.op = op /\ orm_call'.error = "none") =>
                \E i \in DOMAIN runs :
                    /\ orm_call'.args.self = {i}
                    /\ runs'[i].state = ExpectedRunState[op]
                    /\ op = "action_start" =>
                        runs'[i].start_date = <<orm_call'.args.now>>
                    /\ op \in {"action_complete", "action_fail"} =>
                        runs'[i].end_date = <<orm_call'.args.now>>
                    /\ \A j \in DOMAIN runs \ {i} : runs'[j] = runs[j]
        /\ \A i \in DOMAIN runs' :
            runs'[i].state \in {"completed", "failed"} => runs'[i].end_date # <<>>
      ]_vars

C19_Witness ==
    /\ orm_call.op = "action_fail" /\ orm_call.error = "none"
    /\ orm_call.args.self = {1}
    /\ Len(runs) = 2 /\ runs[1].sop_id = runs[2].sop_id
    /\ runs[1].state = "failed" /\ runs[1].end_date # <<>>
    /\ runs[2].state = "draft" /\ runs[2].end_date = <<>>

\* the code begins with the four characters S, O, P, -
HasSopPrefix(code) ==
    /\ Len(code) >= 4
    /\ code[1] = "S" /\ code[2] = "O" /\ code[3] = "P" /\ code[4] = "-"

\* C20: after any sequence of qms.sop.document creates no two stored
\* documents share a code and every stored code starts with 'SOP-': a create
\* with a code in use, or with a code lacking the prefix, is rejected with
\* an error and adds no record.
C20_CodesUniqueAndPrefixed ==
    [][ /\ \A i, j \in DOMAIN documents' :
            i # j => documents'[i].code # documents'[j].code
        /\ \A i \in DOMAIN documents' : HasSopPrefix(documents'[i].code)
        /\ (/\ orm_call'.op = "create"
            /\ \/ \E i \in DOMAIN documents : documents[i].code = orm_call'.args.code
               \/ ~HasSopPrefix(orm_call'.args.code)) =>
            (orm_call'.error # "none" /\ documents' = documents)
        /\ (orm_call'.op = "create" /\ orm_call'.error = "none") =>
            documents' = Append(documents, orm_call'.args)
      ]_vars

C20_Witness ==
    /\ Len(documents) = 2
    /\ orm_call.op = "create" /\ orm_call.error = "IntegrityError"
    /\ orm_call.args.code = documents[1].code
    /\ orm_call.args.category # documents[1].category

\* the parameter is missing or empty
Unset(params, key) == \A text \in {params[k] : k \in DOMAIN params \cap {key}} : Len(text) = 0

\* C21: whenever pulser.webhook.secret, pulser.github.token or
\* pulser.github.repo is missing or empty, action_dispatch raises
\* ValidationError naming the first such parameter in that order and sends
\* no HTTP request.
C21_MissingParameterNamedNoRequest ==
    w_out # <<>> =>
        \A key \in {"pulser.webhook.secret", "pulser.github.token", "pulser.github.repo"} :
            LET before == CASE key = "pulser.webhook.secret" -> {}
                            [] key = "pulser.github.token" -> {"pulser.webhook.secret"}
                            [] key = "pulser.github.repo" ->
                                {"pulser.webhook.secret", "pulser.github.token"}
            IN  (Unset(w_in.params, key) /\ \A b \in before : ~Unset(w_in.params, b)) =>
                    /\ w_out[1].raised = "ValidationError"
                    /\ w_out[1].message = [text |-> "Missing", param |-> key]
                    /\ w_out[1].posts = <<>>

C21_Witness ==
    /\ w_out # <<>>
    /\ "pulser.webhook.secret" \in DOMAIN w_in.params
    /\ w_in.params["pulser.webhook.secret"] # <<>>
    /\ "pulser.github.token" \in DOMAIN w_in.params
    /\ w_in.params["pulser.github.token"] = <<>>
    /\ "pulser.github.repo" \notin DOMAIN w_in.params
    /\ w_out[1].message = [text |-> "Missing", param |-> "pulser.github.token"]
    /\ w_out[1].posts = <<>>

\* C22: for every response whose status code is not 204, whatever its body,
\* action_dispatch raises ValidationError with the status code in its
\* message; for a 204 it returns a display_notification action of type
\* 'success' after exactly one POST.
C22_Non204RaisesValidationError ==
    (w_out # <<>> /\ w_out[1].posts # <<>> /\ w_in.answer.kind = "response") =>
        /\ w_in.answer.status_code # 204 =>
            /\ w_out[1].raised = "ValidationError"
            /\ "status_code" \in DOMAIN w_out[1].message
            /\ w_out[1].message.status_code = w_in.answer.status_code
        /\ w_in.answer.status_code = 204 =>
            /\ w_out[1].raised = "none"
            /\ Len(w_out[1].posts) = 1
            /\ w_out[1].result[1].tag = "display_notification"
            /\ w_out[1].result[1].params.type = "success"

\* C28: the X-Pulser-Signature header of the POST is 'sha256=' followed by
\* the HMAC-SHA256, keyed with the base64-decoded webhook secret, of the
\* body sent in the same POST: a receiver recomputing the HMAC over the body
\* it received obtains the header value.
C28_SignatureIsHmacOfSentBody ==
    w_out # <<>> =>
        \A k \in DOMAIN w_out[1].posts :
            LET post == w_out[1].posts[k]
                key == b64decode(w_in.params["pulser.webhook.secret"]).bytes
            IN  post.headers["X-Pulser-Signature"]
                    = <<"sha256=", hmac_sha256(key, post.body)>>

\* the check names of a mode
ChecksOfMode(mode) ==
    {"http_connectivity", "health_endpoint", "database_connectivity",
     "odoo_responsiveness"}
    \cup (IF mode THEN {"module_loading", "filestore_access", "response_time",
                        "critical_workflows"}
          ELSE {})

\* C23: the overall status is 'healthy' iff every recorded check is
\* 'healthy'; once unhealthy the run stays unhealthy; every check that runs
\* records exactly one entry (4 in basic mode, 8 in comprehensive mode),
\* whatever the earlier checks found; the process exits 0 when the overall
\* status is healthy and 1 otherwise.
C23_OverallStatusIsConjunctionOfChecks ==
    [][ LET recorded == h_results'.checks
        IN  /\ h_results'.status \in {"healthy", "unhealthy"}
            /\ h_results'.status = "healthy" <=>
                \A name \in DOMAIN recorded : recorded[name].status = "healthy"
            /\ h_results.status = "unhealthy" => h_results'.status = "unhealthy"
            /\ h_pc \in ChecksOfMode(TRUE) =>
                /\ h_pc \notin DOMAIN h_results.checks
                /\ DOMAIN recorded = DOMAIN h_results.checks \cup {h_pc}
                /\ \A name \in DOMAIN h_results.checks :
                    recorded[name] = h_results.checks[name]
            /\ h_pc' \in {"summary", "exit", "done"} =>
                /\ DOMAIN recorded = ChecksOfMode(comprehensive)
                /\ Cardinality(DOMAIN recorded) = IF comprehensive THEN 8 ELSE 4
            /\ h_pc' = "done" =>
                h_exit' = IF h_results'.status = "healthy" THEN 0 ELSE 1
      ]_vars

C23_Witness ==
    /\ h_pc = "done" /\ comprehensive
    /\ Cardinality(DOMAIN h_results.checks) = 8
    /\ h_results.checks["http_connectivity"].status = "unhealthy"
    /\ \A name \in DOMAIN h_results.checks \ {"http_connectivity"} :
        h_results.checks[name].status = "healthy"
    /\ h_results.status = "unhealthy"
    /\ h_exit = 1

\* C29: whichever RPC step of _check_critical_workflows fails or raises, no
\* 'Health Check Test Partner' record created by the check remains in the
\* target database when the check returns.
C29_NoTestPartnerLeftBehind ==
    h_pc \in {"summary", "exit", "done"} => partners = {}

\* the order of the phases of main: run_research, the filter, generate_citations,
\* save_to_daily_note, the return of the exit code; a crawler's exception ends
\* the run inside run_research
PhaseOrder ==
    {<<"research", "filter">>, <<"filter", "format">>, <<"format", "save">>,
     <<"save", "return">>, <<"return", "done">>, <<"research", "crashed">>}

\* C24: one run of main passes through querying, scoring, formatting and
\* persisting in this order, each once and each on the finished output of the
\* one before (the filter starts when every query loop is exhausted, the
\* citations are made from the whole filtered list, the note is written from
\* the whole citation list); every run that returns an exit code has gone
\* through save_to_daily_note, so the dated note exists with its header when
\* main returns, with zero accepted items and exit code 1 too.
C24_PhasesInOrderNoteAlwaysWritten ==
    [][/\ pc' # pc => <<pc, pc'>> \in PhaseOrder
       /\ (pc = "research" /\ pc' = "filter") => src = "end"
       /\ results' # results => (pc = "research" /\ pc' = "research")
       /\ <<filtered, filter_scores>>' # <<filtered, filter_scores>> =>
            /\ pc = "filter" /\ pc' = "format"
            /\ filtered' = SelectSeq(results, LAMBDA r : is_acceptable(ItemScore(r, now)))
       /\ citations' # citations =>
            (pc = "format" /\ pc' = "save" /\ Len(citations') = Len(filtered))
       /\ note' # note => (pc = "save" /\ pc' = "return")
       /\ (pc = "save" /\ pc' = "return") =>
            /\ Exists(note') /\ note'.content[1].block = "header"
            /\ Len(CitationBlocks(note')) = Len(CitationBlocks(note)) + Len(citations)
       /\ pc' = "done" =>
            /\ Exists(note') /\ note'.content[1].block = "header"
            /\ exit_code' = (IF Len(filtered) >= 5 THEN 0 ELSE 1)]_vars

\* a run that found items, accepted none of them, created the note with
\* nothing but its header and returned exit code 1
C24_Witness ==
    /\ pc = "done" /\ results # <<>> /\ filtered = <<>> /\ citations = <<>>
    /\ exit_code = 1
    /\ Exists(note) /\ note.content = <<Header(now)>>

\* the indices of the lines that match some pattern
MatchingLines(lines) ==
    {i \in 1..Len(lines) : \E p \in 1..Len(patterns) : re_search(patterns[p], lines[i])}

\* the lines of a text that are not blank, without their surrounding whitespace
NonBlank(lines) ==
    LET kept == SelectSeq(lines, LAMBDA l : l.text # "")
    IN  [k \in 1..Len(kept) |-> Line("", kept[k].text)]

\* C25: extract_snippet returns the matching line of lowest index together
\* with the one line after it (at most two lines, surrounding whitespace
\* stripped), whichever pattern the line matches and whichever patterns later
\* lines match; with no matching line it returns the first two non-blank
\* lines; for '' or None it returns ''.
C25_SnippetIsFirstMatchAndFollowingLine ==
    snip_out # <<>> =>
        LET lines == snip_in.text
            out == snip_out[1]
            hits == MatchingLines(lines)
            i == CHOOSE j \in hits : \A k \in hits : j <= k
        IN  /\ Len(out) <= 2
            /\ (~snip_in.ok \/ lines = <<>>) => out = <<>>
            /\ hits # {} =>
                /\ out[1] = Line("", lines[i].text)
                /\ IF i < Len(lines) /\ lines[i + 1].text # ""
                   THEN out = <<Line("", lines[i].text), lines[i + 1]>>
                   ELSE Len(out) = 1
            /\ (snip_in.ok /\ hits = {}) =>
                out = SubSeq(NonBlank(lines), 1, Min(2, Len(NonBlank(lines))))

\* a text whose second line matches the last pattern of the list and whose
\* third line matches the first: the snippet starts at the second line
C25_Witness ==
    /\ snip_out # <<>> /\ snip_in.ok /\ Len(snip_in.text) = 3
    /\ MatchingLines(snip_in.text) = {2, 3}
    /\ re_search(patterns[6], snip_in.text[2])
    /\ re_search(patterns[1], snip_in.text[3])
    /\ snip_out[1] = <<snip_in.text[2], snip_in.text[3]>>

\* the items the last step appended to results
Appended == SubSeq(results', Len(results) + 1, Len(results'))

\* C26: when the raw-file fetch of a GitHub code-search result fails with a
\* network exception, nothing is raised (run_research goes on to the next
\* query), the item is appended with an empty snippet, the items after it in
\* the same response are appended too, and the citation of the item shows
\* 'See link for details' as its snippet.
C26_FailedFileFetchGivesEmptySnippet ==
    [][/\ (pc = "research" /\ ncalls' = ncalls + 1 /\ last_call'.source = "oca"
           /\ last_call'.kind = "items") =>
            /\ pc' = "research"
            /\ <<src', qi'>> = LoopPosition(domain, test_mode, src, qi + 1)
            /\ Len(Appended) = Len(last_call'.fetched)
            /\ \A i \in 1..Len(Appended) :
                    /\ Appended[i].source_type = "oca"
                    /\ ~last_call'.fetched[i] => Appended[i].snippet = <<>>
       /\ (pc = "format" /\ pc' = "save") =>
            \A i \in 1..Len(filtered) :
                (filtered[i].source_type = "oca" /\ filtered[i].snippet = <<>>) =>
                    citations'[i].snippet = <<"See link for details">>]_vars

\* a finished run whose first raw-file fetch failed: the item is first in the
\* results with an empty snippet, an item fetched after it follows, and its
\* citation in the note shows the fallback text
C26_Witness ==
    /\ pc = "done" /\ Len(results) >= 2 /\ Len(citations) >= 1
    /\ results[1].source_type = "oca" /\ results[1].snippet = <<>>
    /\ results[2].source_type = "oca" /\ results[2].snippet # <<>>
    /\ filtered[1] = results[1]
    /\ citations[1].snippet = <<"See link for details">>
    /\ CitationBlocks(note)[1] = citations[1]

\* C27: for every source_type, year, non-negative upvotes, accepted and
\* oca_aligned the score returned by calculate lies in 0..135.
C27_ScoreBetween0And135 ==
    (Returned /\ s_in.upvotes >= 0) => s_out[1] \in 0..135

\* C27 amended: for every source_type, year, non-negative upvotes, accepted
\* and oca_aligned the score returned by calculate lies in -20..135; it is
\* negative exactly when the base score is 0 and the year is 2021 or later
\* and not in RECENCY_BONUS.
C27_ScoreBetweenMinus20And135 ==
    (Returned /\ s_in.upvotes >= 0) =>
        /\ s_out[1] \in (0 - 20)..135
        /\ s_out[1] < 0 <=>
            /\ BaseScore(s_in.source_type, s_in.upvotes, s_in.accepted) = 0
            /\ s_in.year >= 2021 /\ s_in.year \notin DOMAIN RECENCY_BONUS

\* a Reddit post of three upvotes dated 2026 scored -20
C27_Witness ==
    /\ Returned /\ s_in.source_type = "reddit" /\ s_in.upvotes = 3
    /\ s_in.year = 2026 /\ ~s_in.oca_aligned
    /\ s_out[1] = 0 - 20

====
